---- MODULE Spec2Model ----
(***************************************************************************)
(* The device registry of kvmm (Config in config.go, the second file of    *)
(* src/main.go) and the handlers that read it: the in-memory device list,  *)
(* the canonical TOML file and its temporary file, the thumbnail files,    *)
(* the readers-writer lock c.mu, and every registry operation cut into the *)
(* steps between which another goroutine can run.                          *)
(***************************************************************************)
EXTENDS Integers, Sequences, FiniteSets, TLC

\* ------------------------------------------------------------- bounds
\* Calls a run may start; every AddDevice draws a fresh uuid, so this also
\* bounds the identifiers.
MaxCalls == 2

\* Widths and heights of the images given to ProcessThumbnail: 1..MaxDim,
\* which reaches past both maxThumbnailWidth and maxThumbnailHeight.
MaxDim == 404
MaxRuns == 3

\* ---------------------------------------------------------- constants
DefaultPort == 8080

maxThumbnailWidth == 400
maxThumbnailHeight == 300
jpegQuality == 85

\* The goroutines that call the registry (one HTTP request each).
Callers == {1, 2}

\* Identifiers are uuids: the n-th uuid.New() is modelled as n, "" as 0.
NoID == 0

\* A thumbnail reference is a file name id+ext, or "" (no thumbnail).
NoThumb == <<>>

Exts == {".jpg", ".png"}

\* The bytes an upload hands to SetThumbnail.
UserImage == <<"img">>

Nil == "nil"
ErrNotFound == "device not found"
ErrMkdir == "creating thumbnail dir"
ErrWrite == "saving thumbnail"
\* Save's errors ("creating temp config file", "encoding config", "closing
\* temp config file", "renaming config file") differ in their message only;
\* every caller tests err != nil and hands the error on.
ErrSave == "save failed"
ErrRead == "reading config file"
ErrFetch == "Failed to fetch image"
ErrProcess == "Failed to process image"
ErrFileType == "Invalid file type"
ErrContentType == "Invalid content type"
ErrParse == "parsing config file"

\* ----- the records of the model, each with its fields in one fixed order
\* Device{}: Go's zero value.
NoDevice ==
  [ID |-> NoID, Host |-> "", Alias |-> "", Username |-> "", Password |-> "",
   Thumbnail |-> NoThumb]

\* DeviceWithAuth values a caller passes (the registry ignores their ID).
Inputs ==
  { [ID |-> NoID, Host |-> "h1", Alias |-> "", Username |-> "", Password |-> ""],
    [ID |-> NoID, Host |-> "h2", Alias |-> "a2", Username |-> "u2", Password |-> "p2"] }

\* The operations that write the registry.
Mutating == {"Add", "Update", "Delete", "SetThumbnail", "DeleteThumbnail"}

\* An upload request: where the image comes from (a URL in a JSON body, a
\* file of a multipart form, or neither), how fetching the URL ends, the
\* extension of the uploaded file's name, and whether the bytes decode.
NoRequest == [source |-> "none", fetch |-> "none", fileExt |-> "", decodes |-> FALSE]

\* A call: the operation and its arguments.
NoOp ==
  [kind |-> "none", id |-> NoID, input |-> NoDevice, data |-> <<>>, ext |-> "",
   req |-> NoRequest]

\* A file: absent, partially written, or the complete encoding of a Config.
NoFile == [state |-> "none", port |-> 0, devices |-> <<>>]
PartialFile == [state |-> "partial", port |-> 0, devices |-> <<>>]
\* A file that is not TOML.
MalformedFile == [state |-> "malformed", port |-> 0, devices |-> <<>>]

\* A slice value: its elements and whether its backing array is the
\* registry's own (a write through it is then a write to c.Devices).
NoSlice == [shared |-> FALSE, elems |-> <<>>]

\* The locals of a caller's frames.
NoLoc ==
  [device |-> NoDevice, idx |-> 0, oldDevice |-> NoDevice, oldDevices |-> <<>>,
   sid |-> NoID, sdata |-> <<>>, sext |-> "", err |-> Nil, rdev |-> NoDevice,
   cfg0 |-> NoFile, list |-> NoSlice, pos |-> 0, exists |-> FALSE, wrote |-> FALSE,
   resp |-> <<>>]

NoPre == [devs |-> <<>>, cfg |-> NoFile, thumbs |-> {}]
\* What a call did to the disk so far: whether it rewrote the canonical
\* file or changed a thumbnail file, what its Saves returned, and whether a
\* directory creation or a thumbnail write of its own failed.
NoTouch == [wroteCfg |-> FALSE, wroteThumbs |-> FALSE, saves |-> <<>>, ioFailed |-> FALSE]

\* c.mu, held by no one.
Free == [writer |-> 0, readers |-> {}]

\* A thumbnail file.
ThumbFile(name, data) == [data |-> data, name |-> name]

\* No image in ProcessThumbnail; one has origWidth, origHeight and, once
\* calculateDimensions has run, newWidth and newHeight.
NoImage ==
  [step |-> "none", origWidth |-> 0, origHeight |-> 0, newWidth |-> 0, newHeight |-> 0,
   resized |-> FALSE]

\* No pattern being painted: one has the seed, its hash, the pattern type
\* and the three colours chosen from it, and the pixels painted so far; done
\* lists the invocations that returned, each with its seed and its output.
NoPattern ==
  [kind |-> 0, step |-> "none", seed |-> <<>>, hash |-> <<>>, colors |-> <<>>,
   pixels |-> <<>>, done |-> <<>>]

\* No status check: one has the snapshot GetDevices returned, the probes that
\* have not finished, the result slots and how often each was written.
NoStatus ==
  [devices |-> <<>>, pos |-> 0, resp |-> <<>>, step |-> "none", pending |-> {},
   statuses |-> <<>>, writes |-> <<>>]

\* ------------------------------------------------------ pure functions
\* A lookup that falls through to the last entry instead of reporting that
\* there is none.
IndexOfOrLast(devs, id) ==
  IF \E i \in 1..Len(devs) : devs[i].ID = id
  THEN CHOOSE i \in 1..Len(devs) :
         /\ devs[i].ID = id
         /\ \A j \in 1..(i - 1) : devs[j].ID # id
  ELSE Len(devs)

\* The loop `for i, d := range c.Devices { if d.ID == id ...}`: the first
\* index holding id (1-based), 0 when there is none.
IndexOf(devs, id) ==
  IF \E i \in 1..Len(devs) : devs[i].ID = id
  THEN CHOOSE i \in 1..Len(devs) :
         /\ devs[i].ID = id
         /\ \A j \in 1..(i - 1) : devs[j].ID # id
  ELSE 0

\* GetDevice's result: (device, found).
GetDevice(devs, id) ==
  IF IndexOf(devs, id) = 0
  THEN [dev |-> NoDevice, found |-> FALSE]
  ELSE [dev |-> devs[IndexOf(devs, id)], found |-> TRUE]

\* GetThumbnailPath's result: (path, found); the path is the file's name.
GetThumbnailPath(devs, id) ==
  IF \E i \in 1..Len(devs) : devs[i].ID = id /\ devs[i].Thumbnail # NoThumb
  THEN [found |-> TRUE,
        path |-> (CHOOSE n \in {devs[i].Thumbnail : i \in
                      {j \in 1..Len(devs) : /\ devs[j].ID = id
                                            /\ devs[j].Thumbnail # NoThumb
                                            /\ \A k \in 1..(j - 1) :
                                                 ~(devs[k].ID = id /\ devs[k].Thumbnail # NoThumb)}} : TRUE)]
  ELSE [found |-> FALSE, path |-> NoThumb]

\* filename := id + ext
ThumbName(id, ext) == <<id, ext>>

\* AddDevice's struct literal: no thumbnail yet.
NewDevice(id, d) ==
  [ID |-> id, Host |-> d.Host, Alias |-> d.Alias, Username |-> d.Username,
   Password |-> d.Password, Thumbnail |-> NoThumb]

\* A struct literal that forgets the thumbnail.
UpdatedDeviceNoThumbnail(id, d, old) ==
  [ID |-> id, Host |-> d.Host, Alias |-> d.Alias, Username |-> d.Username,
   Password |-> d.Password, Thumbnail |-> NoThumb]

\* UpdateDevice's struct literal: the old thumbnail is kept.
UpdatedDevice(id, d, old) ==
  [ID |-> id, Host |-> d.Host, Alias |-> d.Alias, Username |-> d.Username,
   Password |-> d.Password, Thumbnail |-> old.Thumbnail]

\* A removal that drops the last entry whatever the index.
RemoveAtEnd(devs, i) == SubSeq(devs, 1, Len(devs) - 1)

\* append(c.Devices[:i], c.Devices[i+1:]...)
RemoveAt(devs, i) == SubSeq(devs, 1, i - 1) \o SubSeq(devs, i + 1, Len(devs))

\* c.Devices[:len(c.Devices)-1]
KeepLast(devs) == devs

DropLast(devs) == SubSeq(devs, 1, Len(devs) - 1)

\* seed := device.ID + device.Host + device.Alias; the pattern is a
\* function of the seed alone.
GeneratePatternThumbnail(dev) == <<"pattern", dev.ID, dev.Host, dev.Alias>>

\* ---- the TOML encoding of a device: id and host always, the other keys
\* only when non-empty (omitempty).
OptKeys == {"alias", "username", "password", "thumbnail"}

Field(d, k) ==
  CASE k = "id" -> d.ID
    [] k = "host" -> d.Host
    [] k = "alias" -> d.Alias
    [] k = "username" -> d.Username
    [] k = "password" -> d.Password
    [] k = "thumbnail" -> d.Thumbnail

IsEmpty(d, k) == IF k = "thumbnail" THEN d.Thumbnail = NoThumb ELSE Field(d, k) = ""

EncodeDevice(d) ==
  [k \in {"id", "host"} \cup {o \in OptKeys : ~IsEmpty(d, o)} |-> Field(d, k)]

DecodeDevice(e) ==
  [ID |-> IF "id" \in DOMAIN e THEN e["id"] ELSE NoID,
   Host |-> IF "host" \in DOMAIN e THEN e["host"] ELSE "",
   Alias |-> IF "alias" \in DOMAIN e THEN e["alias"] ELSE "",
   Username |-> IF "username" \in DOMAIN e THEN e["username"] ELSE "",
   Password |-> IF "password" \in DOMAIN e THEN e["password"] ELSE "",
   Thumbnail |-> IF "thumbnail" \in DOMAIN e THEN e["thumbnail"] ELSE NoThumb]

\* encoder.Encode(c): the server section and the device tables.
EncodeConfig(port, devs) ==
  [state |-> "complete", port |-> port,
   devices |-> [i \in 1..Len(devs) |-> EncodeDevice(devs[i])]]

\* toml.Unmarshal of a complete file: the device list it holds.
DecodeDevices(f) == [i \in 1..Len(f.devices) |-> DecodeDevice(f.devices[i])]

\* tmpFile := c.filePath + ".tmp"
CfgPath == "config.toml"
\* Writing the new content straight into the canonical file.
InPlace == CfgPath
TmpFile == "config.toml.tmp"

\* ---------------------------------------------------------------- state
VARIABLES
  Devices,    \* c.Devices
  fs,         \* the canonical file and its temporary file, by path
  thumbs,     \* the thumbnail directory: a set of files [name, data]
  thumbDir,   \* whether the thumbnail directory exists
  mu,         \* c.mu: [writer: who holds it exclusively or 0, readers: who hold it shared]
  nextID,     \* uuids drawn so far
  calls,      \* calls started so far
  active,     \* the callers of this specification
  pc,         \* per caller: where it stands
  stack,      \* per caller: the labels its callees return to
  op,         \* per caller: the call in progress
  loc,        \* per caller: the locals of its frames
  pre,        \* per caller: the registry as it was when the call started
  touched,    \* per caller: what the call wrote so far, and what its Saves returned
  hist,       \* the mutating calls that returned success, in return order
  loaded,     \* the device list LoadConfig returned
  img,        \* the image ProcessThumbnail is working on
  pat,        \* the pattern GeneratePatternThumbnail is painting, and the ones it made
  status      \* the status check in progress: its snapshot, probes and result slots

vars == <<Devices, fs, thumbs, thumbDir, mu, nextID, calls, active, pc, stack,
          op, loc, pre, touched, hist, loaded, img, pat, status>>

\* The registries LoadConfig can hand to the server: of a path with no file
\* (the default registry, saved), and of a file with one device, whose
\* pattern thumbnail GenerateMissingThumbnails wrote or failed to write.
LoadedDevice(withThumb) ==
  [NewDevice(1, [ID |-> NoID, Host |-> "h1", Alias |-> "", Username |-> "", Password |-> ""])
     EXCEPT !.Thumbnail = IF withThumb THEN ThumbName(1, ".jpg") ELSE NoThumb]

Loaded ==
  { [devs |-> <<>>, thumbs |-> {}, dir |-> FALSE],
    [devs |-> <<LoadedDevice(FALSE)>>, thumbs |-> {}, dir |-> FALSE],
    [devs |-> <<LoadedDevice(TRUE)>>,
     thumbs |-> {ThumbFile(ThumbName(1, ".jpg"),
                           GeneratePatternThumbnail(LoadedDevice(FALSE)))},
     dir |-> TRUE] }

InitCommon ==
  /\ \E l \in Loaded :
       /\ Devices = l.devs
       /\ fs = [p \in {CfgPath, TmpFile} |->
                  IF p = CfgPath THEN EncodeConfig(DefaultPort, l.devs) ELSE NoFile]
       /\ thumbs = l.thumbs
       /\ thumbDir = l.dir
       /\ nextID = Len(l.devs)
  /\ mu = Free
  /\ calls = 0
  /\ pc = [t \in Callers |-> "idle"]
  /\ stack = [t \in Callers |-> <<>>]
  /\ op = [t \in Callers |-> NoOp]
  /\ loc = [t \in Callers |-> NoLoc]
  /\ pre = [t \in Callers |-> NoPre]
  /\ touched = [t \in Callers |-> NoTouch]
  /\ hist = <<>>
  /\ loaded = Devices
  /\ img = NoImage
  /\ pat = NoPattern
  /\ status = NoStatus

\* One caller at a time.
Init == InitCommon /\ active = {1}

\* Two concurrent callers.
InitConc == InitCommon /\ active = Callers

\* The registry and its callers, with the lock and without it.
Registry == <<Devices, fs, thumbs, thumbDir, mu, nextID, calls, active, pc, stack,
              op, loc, pre, touched, hist, loaded>>

Registry2 == <<Devices, fs, thumbs, thumbDir, nextID, calls, active, pc, stack,
               op, loc, pre, touched, hist, loaded>>

\* ----------------------------------------------------------------- lock
CanLock == mu.writer = 0 /\ mu.readers = {}
\* A shared lock that does not wait for the writer.
CanRLockAlways == TRUE

CanRLock == mu.writer = 0
Locked(t) == [mu EXCEPT !.writer = t]
RLocked(t) == [mu EXCEPT !.readers = @ \cup {t}]
RUnlocked(t) == [mu EXCEPT !.readers = @ \ {t}]

Snapshot == [devs |-> Devices, cfg |-> fs[CfgPath], thumbs |-> thumbs]

\* A call starts: the caller leaves "idle". Callers are interchangeable, so
\* the first call of a run is caller 1's.
Start(t, o, label, stk) ==
  /\ t \in active
  /\ t = 1 \/ calls > 0
  /\ pc[t] = "idle"
  /\ calls < MaxCalls
  /\ calls' = calls + 1
  /\ pc' = [pc EXCEPT ![t] = label]
  /\ stack' = [stack EXCEPT ![t] = stk]
  /\ op' = [op EXCEPT ![t] = o]
  /\ pre' = [pre EXCEPT ![t] = Snapshot]
  /\ UNCHANGED <<Devices, fs, thumbs, thumbDir, mu, nextID, active, loc, touched, hist, loaded, img, pat, status>>

\* A function returns to the label its caller left on the stack.
Return(t) ==
  /\ pc' = [pc EXCEPT ![t] = Head(stack[t])]
  /\ stack' = [stack EXCEPT ![t] = Tail(@)]

Goto(t, label) ==
  /\ pc' = [pc EXCEPT ![t] = label]
  /\ UNCHANGED stack

\* A function calls c.Save() and continues at label when it returns.
CallSave(t, label) ==
  /\ pc' = [pc EXCEPT ![t] = "sv_lock"]
  /\ stack' = [stack EXCEPT ![t] = <<label>> \o @]

\* return c.Save(): Save returns to this function's caller.
TailCallSave(t) ==
  /\ pc' = [pc EXCEPT ![t] = "sv_lock"]
  /\ UNCHANGED stack

\* ----------------------------------------------------------------- Save
\* Where a caller stands while its Save holds the lock.
SaveSteps == {"sv_create", "sv_encode", "sv_close", "sv_rename"}

\* c.mu.Lock(); defer c.mu.Unlock()
SaveLock(t) ==
  /\ pc[t] = "sv_lock"
  /\ CanLock
  /\ mu' = Locked(t)
  /\ loc' = [loc EXCEPT ![t].cfg0 = fs[CfgPath]]
  /\ Goto(t, "sv_create")
  /\ UNCHANGED <<Devices, fs, thumbs, thumbDir, nextID, calls, active, op, pre, touched, hist, loaded, img, pat, status>>

\* os.Remove(tmpFile), its error ignored: the file is the one this Save
\* has just created, and its removal is taken to succeed.
RemoveTmp(files) == [files EXCEPT ![TmpFile] = NoFile]

\* os.Create(tmpFile): the file is created or truncated, and is empty.
CreateTmp(files) == [files EXCEPT ![TmpFile] = PartialFile]

\* encoder.Encode(c) into the open file.
EncodeTmp(files, devs) == [files EXCEPT ![TmpFile] = EncodeConfig(DefaultPort, devs)]

\* A rename that loses the temporary file instead of installing it.
RenameTmpLost(files) == RemoveTmp(files)

\* os.Rename(tmpFile, c.filePath): the canonical path now names the
\* temporary file's content, and the temporary name is gone.
RenameTmp(files) ==
  [p \in DOMAIN files |->
     IF p = CfgPath THEN files[TmpFile]
     ELSE IF p = TmpFile THEN NoFile ELSE files[p]]

\* f, err := os.Create(tmpFile)
SaveCreate(t) ==
  /\ pc[t] = "sv_create"
  /\ \E ok \in BOOLEAN :
       IF ok
       THEN /\ fs' = CreateTmp(fs)
            /\ touched' = [touched EXCEPT ![t].wroteCfg = @ \/ fs'[CfgPath] # fs[CfgPath]]
            /\ Goto(t, "sv_encode")
            /\ UNCHANGED <<mu, loc>>
       ELSE /\ loc' = [loc EXCEPT ![t].err = ErrSave]
            /\ mu' = Free
            /\ Return(t)
            /\ touched' = [touched EXCEPT ![t].saves = Append(@, ErrSave)]
            /\ UNCHANGED fs
  /\ UNCHANGED <<Devices, thumbs, thumbDir, nextID, calls, active, op, pre, hist, loaded, img, pat, status>>

\* encoder.Encode(c); on error f.Close(), os.Remove(tmpFile).
SaveEncode(t) ==
  /\ pc[t] = "sv_encode"
  /\ \E ok \in BOOLEAN :
       IF ok
       THEN /\ fs' = EncodeTmp(fs, Devices)
            /\ Goto(t, "sv_close")
            /\ UNCHANGED <<mu, loc>>
       ELSE /\ fs' = RemoveTmp(fs)
            /\ loc' = [loc EXCEPT ![t].err = ErrSave]
            /\ mu' = Free
            /\ Return(t)
  /\ touched' = [touched EXCEPT ![t].wroteCfg = @ \/ fs'[CfgPath] # fs[CfgPath],
                                ![t].saves = IF pc'[t] \in SaveSteps THEN @ ELSE Append(@, ErrSave)]
  /\ UNCHANGED <<Devices, thumbs, thumbDir, nextID, calls, active, op, pre, hist, loaded, img, pat, status>>

\* f.Close(); on error os.Remove(tmpFile).
SaveClose(t) ==
  /\ pc[t] = "sv_close"
  /\ \E ok \in BOOLEAN :
       IF ok
       THEN /\ Goto(t, "sv_rename")
            /\ UNCHANGED <<fs, mu, loc>>
       ELSE /\ fs' = RemoveTmp(fs)
            /\ loc' = [loc EXCEPT ![t].err = ErrSave]
            /\ mu' = Free
            /\ Return(t)
  /\ touched' = [touched EXCEPT ![t].wroteCfg = @ \/ fs'[CfgPath] # fs[CfgPath],
                                ![t].saves = IF pc'[t] \in SaveSteps THEN @ ELSE Append(@, ErrSave)]
  /\ UNCHANGED <<Devices, thumbs, thumbDir, nextID, calls, active, op, pre, hist, loaded, img, pat, status>>

\* os.Rename(tmpFile, c.filePath); on error os.Remove(tmpFile).
SaveRename(t) ==
  /\ pc[t] = "sv_rename"
  /\ \E ok \in BOOLEAN :
       IF ok
       THEN /\ fs' = RenameTmp(fs)
            /\ loc' = [loc EXCEPT ![t].err = Nil]
            /\ touched' = [touched EXCEPT ![t].wroteCfg = TRUE, ![t].saves = Append(@, Nil)]
       ELSE /\ fs' = RemoveTmp(fs)
            /\ loc' = [loc EXCEPT ![t].err = ErrSave]
            /\ touched' = [touched EXCEPT ![t].wroteCfg = @ \/ fs'[CfgPath] # fs[CfgPath],
                                          ![t].saves = Append(@, ErrSave)]
  /\ mu' = Free
  /\ Return(t)
  /\ UNCHANGED <<Devices, thumbs, thumbDir, nextID, calls, active, op, pre, hist, loaded, img, pat, status>>

\* ------------------------------------------------------ thumbnail files
FileNames(dir) == {f.name : f \in dir}

\* os.Remove(path), its error ignored: the file is gone when it succeeds.
RemoveFile(dir, name, ok) == IF ok THEN {f \in dir : f.name # name} ELSE dir

\* os.WriteFile(path, data): creates or replaces the file.
WriteFile(dir, name, data) ==
  {f \in dir : f.name # name} \cup {ThumbFile(name, data)}

\* ------------------------------------------------------------ AddDevice
CallAdd(t, d) ==
  Start(t, [NoOp EXCEPT !.kind = "Add", !.input = NewDevice(NoID, d)], "add_lock", <<>>)

AddLock(t) ==
  /\ pc[t] = "add_lock"
  /\ CanLock
  /\ mu' = Locked(t)
  /\ Goto(t, "add_append")
  /\ UNCHANGED <<Devices, fs, thumbs, thumbDir, nextID, calls, active, op, loc, pre, touched, hist, loaded, img, pat, status>>

\* device := Device{ID: uuid.New(), ...}; append; Unlock; c.Save()
AddAppend(t) ==
  /\ pc[t] = "add_append"
  /\ nextID' = nextID + 1
  /\ LET device == NewDevice(nextID + 1, op[t].input)
     IN /\ Devices' = Append(Devices, device)
        /\ loc' = [loc EXCEPT ![t].device = device]
  /\ mu' = Free
  /\ CallSave(t, "add_saved")
  /\ UNCHANGED <<fs, thumbs, thumbDir, calls, active, op, pre, touched, hist, loaded, img, pat, status>>

\* if err := c.Save(); err != nil { rollback } else the pattern thumbnail:
\* c.SetThumbnail(device.ID, pattern, ".jpg"), its error dropped.
AddSaved(t) ==
  /\ pc[t] = "add_saved"
  /\ IF loc[t].err # Nil
     THEN /\ Goto(t, "add_rb_lock")
          /\ UNCHANGED loc
     ELSE /\ loc' = [loc EXCEPT ![t].sid = loc[t].device.ID,
                                ![t].sdata = GeneratePatternThumbnail(loc[t].device),
                                ![t].sext = ".jpg"]
          /\ pc' = [pc EXCEPT ![t] = "st_mkdir"]
          /\ stack' = [stack EXCEPT ![t] = <<"add_get_rlock">> \o @]
  /\ UNCHANGED <<Devices, fs, thumbs, thumbDir, mu, nextID, calls, active, op, pre, touched, hist, loaded, img, pat, status>>

AddRollbackLock(t) ==
  /\ pc[t] = "add_rb_lock"
  /\ CanLock
  /\ mu' = Locked(t)
  /\ Goto(t, "add_rb")
  /\ UNCHANGED <<Devices, fs, thumbs, thumbDir, nextID, calls, active, op, loc, pre, touched, hist, loaded, img, pat, status>>

\* c.Devices = c.Devices[:len(c.Devices)-1]; Unlock; return Device{}, err.
\* On an empty list the slice expression panics, with the lock held.
AddRollback(t) ==
  /\ pc[t] = "add_rb"
  /\ IF Len(Devices) = 0
     THEN /\ Goto(t, "panic")
          /\ UNCHANGED <<Devices, mu, loc>>
     ELSE /\ Devices' = DropLast(Devices)
          /\ mu' = Free
          /\ loc' = [loc EXCEPT ![t].rdev = NoDevice]
          /\ Goto(t, "ret")
  /\ UNCHANGED <<fs, thumbs, thumbDir, nextID, calls, active, op, pre, touched, hist, loaded, img, pat, status>>

\* c.GetDevice(device.ID): RLock
AddGetRLock(t) ==
  /\ pc[t] = "add_get_rlock"
  /\ CanRLock
  /\ mu' = RLocked(t)
  /\ Goto(t, "add_get")
  /\ UNCHANGED <<Devices, fs, thumbs, thumbDir, nextID, calls, active, op, loc, pre, touched, hist, loaded, img, pat, status>>

\* if updated, found := c.GetDevice(device.ID); found { device = updated };
\* return device, nil
AddGet(t) ==
  /\ pc[t] = "add_get"
  /\ LET got == GetDevice(Devices, loc[t].device.ID)
     IN loc' = [loc EXCEPT ![t].rdev = IF got.found THEN got.dev ELSE loc[t].device,
                           ![t].err = Nil]
  /\ mu' = RUnlocked(t)
  /\ Goto(t, "ret")
  /\ UNCHANGED <<Devices, fs, thumbs, thumbDir, nextID, calls, active, op, pre, touched, hist, loaded, img, pat, status>>

\* --------------------------------------------------------- SetThumbnail
CallSetThumbnail(t, id, ext) ==
  /\ Start(t, [NoOp EXCEPT !.kind = "SetThumbnail", !.id = id, !.data = UserImage,
                           !.ext = ext], "st_enter", <<"ret">>)

\* The arguments of the call become SetThumbnail's parameters.
SetThumbnailEnter(t) ==
  /\ pc[t] = "st_enter"
  /\ loc' = [loc EXCEPT ![t].sid = op[t].id, ![t].sdata = op[t].data,
                        ![t].sext = op[t].ext]
  /\ Goto(t, "st_mkdir")
  /\ UNCHANGED <<Devices, fs, thumbs, thumbDir, mu, nextID, calls, active, op, pre, touched, hist, loaded, img, pat, status>>

\* c.EnsureThumbnailDir(): os.MkdirAll
SetThumbnailMkdir(t) ==
  /\ pc[t] = "st_mkdir"
  /\ \E ok \in BOOLEAN :
       IF ok
       THEN /\ thumbDir' = TRUE
            /\ Goto(t, "st_lock")
            /\ UNCHANGED <<loc, touched>>
       ELSE /\ loc' = [loc EXCEPT ![t].err = ErrMkdir]
            /\ touched' = [touched EXCEPT ![t].ioFailed = TRUE]
            /\ Return(t)
            /\ UNCHANGED thumbDir
  /\ UNCHANGED <<Devices, fs, thumbs, mu, nextID, calls, active, op, pre, hist, loaded, img, pat, status>>

SetThumbnailLock(t) ==
  /\ pc[t] = "st_lock"
  /\ CanLock
  /\ mu' = Locked(t)
  /\ Goto(t, "st_body")
  /\ UNCHANGED <<Devices, fs, thumbs, thumbDir, nextID, calls, active, op, loc, pre, touched, hist, loaded, img, pat, status>>

\* The reference SetThumbnail stores in the entry.
SetThumbnailDevices(devs, idx, filename) == [devs EXCEPT ![idx].Thumbnail = filename]

\* Under the lock: find the device; remove the old file (error ignored);
\* write the new one; set the reference; Unlock; return c.Save().
SetThumbnailBody(t) ==
  /\ pc[t] = "st_body"
  /\ LET idx == IndexOf(Devices, loc[t].sid)
         oldThumb == Devices[idx].Thumbnail
         filename == ThumbName(loc[t].sid, loc[t].sext)
     IN IF idx = 0
        THEN /\ loc' = [loc EXCEPT ![t].err = ErrNotFound]
             /\ Return(t)
             /\ UNCHANGED <<Devices, thumbs, touched>>
        ELSE \E rm \in BOOLEAN, ok \in BOOLEAN :
               LET afterRemove == IF oldThumb # NoThumb
                                  THEN RemoveFile(thumbs, oldThumb, rm)
                                  ELSE thumbs
               IN /\ (oldThumb = NoThumb \/ oldThumb \notin FileNames(thumbs)) => rm
                  /\ touched' = [touched EXCEPT ![t].wroteThumbs = @ \/ ok \/ afterRemove # thumbs,
                                                ![t].ioFailed = @ \/ ~ok]
                  /\ IF ok /\ thumbDir
                     THEN /\ thumbs' = WriteFile(afterRemove, filename, loc[t].sdata)
                          /\ Devices' = SetThumbnailDevices(Devices, idx, filename)
                          /\ TailCallSave(t)
                          /\ UNCHANGED loc
                     ELSE /\ thumbs' = afterRemove
                          /\ loc' = [loc EXCEPT ![t].err = ErrWrite]
                          /\ Return(t)
                          /\ UNCHANGED Devices
  /\ mu' = Free
  /\ UNCHANGED <<fs, thumbDir, nextID, calls, active, op, pre, hist, loaded, img, pat, status>>

\* ------------------------------------------------------ DeleteThumbnail
CallDeleteThumbnail(t, id) ==
  Start(t, [NoOp EXCEPT !.kind = "DeleteThumbnail", !.id = id], "dt_lock", <<"ret">>)

DeleteThumbnailLock(t) ==
  /\ pc[t] = "dt_lock"
  /\ CanLock
  /\ mu' = Locked(t)
  /\ Goto(t, "dt_body")
  /\ UNCHANGED <<Devices, fs, thumbs, thumbDir, nextID, calls, active, op, loc, pre, touched, hist, loaded, img, pat, status>>

\* Under the lock: find the device; if it has a thumbnail remove the file
\* (error ignored) and clear the reference; Unlock; return c.Save().
DeleteThumbnailBody(t) ==
  /\ pc[t] = "dt_body"
  /\ LET idx == IndexOf(Devices, op[t].id)
     IN IF idx = 0
        THEN /\ loc' = [loc EXCEPT ![t].err = ErrNotFound]
             /\ Return(t)
             /\ UNCHANGED <<Devices, thumbs, touched>>
        ELSE /\ IF Devices[idx].Thumbnail # NoThumb
                THEN \E rm \in BOOLEAN :
                       /\ Devices[idx].Thumbnail \notin FileNames(thumbs) => rm
                       /\ thumbs' = RemoveFile(thumbs, Devices[idx].Thumbnail, rm)
                       /\ touched' = [touched EXCEPT ![t].wroteThumbs = @ \/ thumbs' # thumbs]
                       /\ Devices' = [Devices EXCEPT ![idx].Thumbnail = NoThumb]
                ELSE UNCHANGED <<Devices, thumbs, touched>>
             /\ TailCallSave(t)
             /\ UNCHANGED loc
  /\ mu' = Free
  /\ UNCHANGED <<fs, thumbDir, nextID, calls, active, op, pre, hist, loaded, img, pat, status>>

\* --------------------------------------------------------- UpdateDevice
CallUpdate(t, id, d) ==
  Start(t, [NoOp EXCEPT !.kind = "Update", !.id = id, !.input = NewDevice(NoID, d)],
        "upd_lock", <<>>)

UpdateLock(t) ==
  /\ pc[t] = "upd_lock"
  /\ CanLock
  /\ mu' = Locked(t)
  /\ Goto(t, "upd_body")
  /\ UNCHANGED <<Devices, fs, thumbs, thumbDir, nextID, calls, active, op, loc, pre, touched, hist, loaded, img, pat, status>>

\* Under the lock: find the device (or return "device not found"), keep the
\* old entry and its index, store the updated entry; Unlock; c.Save().
UpdateBody(t) ==
  /\ pc[t] = "upd_body"
  /\ LET idx == IndexOf(Devices, op[t].id)
     IN IF idx = 0
        THEN /\ loc' = [loc EXCEPT ![t].err = ErrNotFound, ![t].rdev = NoDevice]
             /\ Goto(t, "ret")
             /\ UNCHANGED Devices
        ELSE LET updated == UpdatedDevice(op[t].id, op[t].input, Devices[idx])
             IN /\ loc' = [loc EXCEPT ![t].oldDevice = Devices[idx], ![t].idx = idx,
                                      ![t].device = updated]
                /\ Devices' = [Devices EXCEPT ![idx] = updated]
                /\ CallSave(t, "upd_saved")
  /\ mu' = Free
  /\ UNCHANGED <<fs, thumbs, thumbDir, nextID, calls, active, op, pre, touched, hist, loaded, img, pat, status>>

\* if err := c.Save(); err != nil { rollback }; return updated, nil
UpdateSaved(t) ==
  /\ pc[t] = "upd_saved"
  /\ IF loc[t].err # Nil
     THEN /\ Goto(t, "upd_rb_lock")
          /\ UNCHANGED loc
     ELSE /\ loc' = [loc EXCEPT ![t].rdev = loc[t].device]
          /\ Goto(t, "ret")
  /\ UNCHANGED <<Devices, fs, thumbs, thumbDir, mu, nextID, calls, active, op, pre, touched, hist, loaded, img, pat, status>>

UpdateRollbackLock(t) ==
  /\ pc[t] = "upd_rb_lock"
  /\ CanLock
  /\ mu' = Locked(t)
  /\ Goto(t, "upd_rb")
  /\ UNCHANGED <<Devices, fs, thumbs, thumbDir, nextID, calls, active, op, loc, pre, touched, hist, loaded, img, pat, status>>

\* An error path that returns without restoring the entry.
UpdateRollbackSkipped(devs, idx, oldDevice) == devs

\* c.Devices[idx] = oldDevice, at the index found before the Save.
UpdateRollbackDevices(devs, idx, oldDevice) == [devs EXCEPT ![idx] = oldDevice]

\* Rollback; Unlock; return Device{}, err. An index past the end of the
\* list panics, with the lock held.
UpdateRollback(t) ==
  /\ pc[t] = "upd_rb"
  /\ IF loc[t].idx > Len(Devices)
     THEN /\ Goto(t, "panic")
          /\ UNCHANGED <<Devices, mu, loc>>
     ELSE /\ Devices' = UpdateRollbackDevices(Devices, loc[t].idx, loc[t].oldDevice)
          /\ mu' = Free
          /\ loc' = [loc EXCEPT ![t].rdev = NoDevice]
          /\ Goto(t, "ret")
  /\ UNCHANGED <<fs, thumbs, thumbDir, nextID, calls, active, op, pre, touched, hist, loaded, img, pat, status>>

\* --------------------------------------------------------- DeleteDevice
CallDelete(t, id) ==
  Start(t, [NoOp EXCEPT !.kind = "Delete", !.id = id], "del_lock", <<>>)

DeleteLock(t) ==
  /\ pc[t] = "del_lock"
  /\ CanLock
  /\ mu' = Locked(t)
  /\ Goto(t, "del_body")
  /\ UNCHANGED <<Devices, fs, thumbs, thumbDir, nextID, calls, active, op, loc, pre, touched, hist, loaded, img, pat, status>>

\* Under the lock: find the device (or return "device not found"), copy the
\* list, remove the entry; Unlock; c.Save().
DeleteBody(t) ==
  /\ pc[t] = "del_body"
  /\ LET idx == IndexOf(Devices, op[t].id)
     IN IF idx = 0
        THEN /\ loc' = [loc EXCEPT ![t].err = ErrNotFound]
             /\ Goto(t, "ret")
             /\ UNCHANGED Devices
        ELSE /\ loc' = [loc EXCEPT ![t].oldDevices = Devices]
             /\ Devices' = RemoveAt(Devices, idx)
             /\ CallSave(t, "del_saved")
  /\ mu' = Free
  /\ UNCHANGED <<fs, thumbs, thumbDir, nextID, calls, active, op, pre, touched, hist, loaded, img, pat, status>>

\* if err := c.Save(); err != nil { rollback }; return nil
DeleteSaved(t) ==
  /\ pc[t] = "del_saved"
  /\ IF loc[t].err # Nil THEN Goto(t, "del_rb_lock") ELSE Goto(t, "ret")
  /\ UNCHANGED <<Devices, fs, thumbs, thumbDir, mu, nextID, calls, active, op, loc, pre, touched, hist, loaded, img, pat, status>>

DeleteRollbackLock(t) ==
  /\ pc[t] = "del_rb_lock"
  /\ CanLock
  /\ mu' = Locked(t)
  /\ Goto(t, "del_rb")
  /\ UNCHANGED <<Devices, fs, thumbs, thumbDir, nextID, calls, active, op, loc, pre, touched, hist, loaded, img, pat, status>>

\* c.Devices = oldDevices
DeleteRollbackDevices(devs, oldDevices) == oldDevices

DeleteRollback(t) ==
  /\ pc[t] = "del_rb"
  /\ Devices' = DeleteRollbackDevices(Devices, loc[t].oldDevices)
  /\ mu' = Free
  /\ Goto(t, "ret")
  /\ UNCHANGED <<fs, thumbs, thumbDir, nextID, calls, active, op, loc, pre, touched, hist, loaded, img, pat, status>>

\* ------------------------------------------- GetDevices and ListDevices
\* Returning c.Devices itself: the caller's slice shares the registry's array.
GetDevicesNoCopy(devs) == [shared |-> TRUE, elems |-> devs]

\* GetDevices: make([]Device, len(c.Devices)); copy(devices, c.Devices).
GetDevices(devs) == [shared |-> FALSE, elems |-> devs]

SliceAt(s, i) == IF s.shared /\ i <= Len(Devices) THEN Devices[i] ELSE s.elems[i]

CallList(t) == Start(t, [NoOp EXCEPT !.kind = "List"], "ls_rlock", <<>>)

ListRLock(t) ==
  /\ pc[t] = "ls_rlock"
  /\ CanRLock
  /\ mu' = RLocked(t)
  /\ Goto(t, "ls_copy")
  /\ UNCHANGED <<Devices, fs, thumbs, thumbDir, nextID, calls, active, op, loc, pre, touched, hist, loaded, img, pat, status>>

\* devices := h.config.GetDevices(); for i := range devices
ListCopy(t) ==
  /\ pc[t] = "ls_copy"
  /\ loc' = [loc EXCEPT ![t].list = GetDevices(Devices), ![t].pos = 1]
  /\ mu' = RUnlocked(t)
  /\ Goto(t, IF Len(Devices) = 0 THEN "ret" ELSE "ls_path_rlock")
  /\ UNCHANGED <<Devices, fs, thumbs, thumbDir, nextID, calls, active, op, pre, touched, hist, loaded, img, pat, status>>

ListPathRLock(t) ==
  /\ pc[t] = "ls_path_rlock"
  /\ CanRLock
  /\ mu' = RLocked(t)
  /\ Goto(t, "ls_path")
  /\ UNCHANGED <<Devices, fs, thumbs, thumbDir, nextID, calls, active, op, loc, pre, touched, hist, loaded, img, pat, status>>

\* _, exists := h.config.GetThumbnailPath(devices[i].ID)
ListPath(t) ==
  /\ pc[t] = "ls_path"
  /\ loc' = [loc EXCEPT ![t].exists =
               GetThumbnailPath(Devices, SliceAt(loc[t].list, loc[t].pos).ID).found]
  /\ mu' = RUnlocked(t)
  /\ Goto(t, "ls_set")
  /\ UNCHANGED <<Devices, fs, thumbs, thumbDir, nextID, calls, active, op, pre, touched, hist, loaded, img, pat, status>>

\* if exists && devices[i].Thumbnail == "" { devices[i].Thumbnail = ID + ".jpg" };
\* after the last element the list is encoded as the response.
ListSet(t) ==
  /\ pc[t] = "ls_set"
  /\ LET s == loc[t].list
         i == loc[t].pos
         d == SliceAt(s, i)
         write == loc[t].exists /\ d.Thumbnail = NoThumb
         nd == [d EXCEPT !.Thumbnail = ThumbName(d.ID, ".jpg")]
     IN /\ loc' = [loc EXCEPT ![t].list.elems = IF write THEN [@ EXCEPT ![i] = nd] ELSE @,
                              ![t].pos = i + 1,
                              ![t].wrote = @ \/ write]
        /\ Devices' = IF write /\ s.shared /\ i <= Len(Devices)
                      THEN [Devices EXCEPT ![i] = nd]
                      ELSE Devices
        /\ Goto(t, IF i < Len(s.elems) THEN "ls_path_rlock" ELSE "ret")
  /\ UNCHANGED <<fs, thumbs, thumbDir, mu, nextID, calls, active, op, pre, touched, hist, loaded, img, pat, status>>

\* ------------------------------------------------- GoToDevice (/go/{id})
\* url.QueryEscape(s): the escaped form of s.
QueryEscape(s) == <<"escaped", s>>

\* The redirect URL GoToDevice builds.
RedirectURL(device) ==
  IF device.Username # "" /\ device.Password # ""
  THEN <<"http://", QueryEscape(device.Username), ":", QueryEscape(device.Password),
         "@", device.Host, "/">>
  ELSE <<"http://", device.Host, "/">>

\* json.NewEncoder(w).Encode(device): Password is tagged json:"-".
JsonDevice(d) ==
  [id |-> d.ID, alias |-> d.Alias, username |-> d.Username,
   thumbnail |-> d.Thumbnail, host |-> d.Host]

CallGo(t, id) == Start(t, [NoOp EXCEPT !.kind = "Go", !.id = id], "go_rlock", <<>>)

GoRLock(t) ==
  /\ pc[t] = "go_rlock"
  /\ CanRLock
  /\ mu' = RLocked(t)
  /\ Goto(t, "go_get")
  /\ UNCHANGED <<Devices, fs, thumbs, thumbDir, nextID, calls, active, op, loc, pre, touched, hist, loaded, img, pat, status>>

\* device, found := h.config.GetDevice(id); 404 or the redirect.
GoGet(t) ==
  /\ pc[t] = "go_get"
  /\ LET got == GetDevice(Devices, op[t].id)
     IN loc' = [loc EXCEPT ![t].rdev = got.dev,
                           ![t].exists = got.found,
                           ![t].err = IF got.found THEN Nil ELSE ErrNotFound,
                           ![t].resp = IF got.found THEN RedirectURL(got.dev) ELSE <<>>]
  /\ mu' = RUnlocked(t)
  /\ Goto(t, "ret")
  /\ UNCHANGED <<Devices, fs, thumbs, thumbDir, nextID, calls, active, op, pre, touched, hist, loaded, img, pat, status>>

\* ------------------------------------------------------ UploadThumbnail
\* The requests sent to POST /api/devices/{id}/thumbnail.
UploadRequests ==
  { [source |-> "url", fetch |-> "failed", fileExt |-> "", decodes |-> FALSE],
    [source |-> "url", fetch |-> "notimage", fileExt |-> "", decodes |-> FALSE],
    [source |-> "url", fetch |-> "ok", fileExt |-> "", decodes |-> FALSE],
    [source |-> "url", fetch |-> "ok", fileExt |-> "", decodes |-> TRUE],
    [source |-> "file", fetch |-> "none", fileExt |-> ".exe", decodes |-> TRUE],
    [source |-> "file", fetch |-> "none", fileExt |-> ".png", decodes |-> FALSE],
    [source |-> "file", fetch |-> "none", fileExt |-> ".png", decodes |-> TRUE],
    [source |-> "other", fetch |-> "none", fileExt |-> "", decodes |-> FALSE] }

AllowedExts == {".jpg", ".png", ".jpeg", ".gif", ".webp"}

\* ProcessThumbnail(data): the JPEG encoding of the (resized) image.
ProcessThumbnail(data) == <<"jpeg", data>>

\* A handler that lets every request through.
RejectNothing(req) == Nil

\* The error UploadThumbnail answers before it calls SetThumbnail, Nil
\* when it goes on: fetchImageFromURL (with ValidateImageData) and
\* ProcessThumbnail for a URL; the extension check and ProcessThumbnail for
\* a file; any other content type is refused.
Reject(req) ==
  IF req.source = "url"
  THEN IF req.fetch # "ok" THEN ErrFetch
       ELSE IF ~req.decodes THEN ErrProcess ELSE Nil
  ELSE IF req.source = "file"
  THEN IF req.fileExt \notin AllowedExts THEN ErrFileType
       ELSE IF ~req.decodes THEN ErrProcess ELSE Nil
  ELSE ErrContentType

CallUpload(t, id, req) ==
  Start(t, [NoOp EXCEPT !.kind = "Upload", !.id = id, !.req = req], "up_rlock", <<"ret">>)

UploadRLock(t) ==
  /\ pc[t] = "up_rlock"
  /\ CanRLock
  /\ mu' = RLocked(t)
  /\ Goto(t, "up_get")
  /\ UNCHANGED <<Devices, fs, thumbs, thumbDir, nextID, calls, active, op, loc, pre, touched, hist, loaded, img, pat, status>>

\* if _, found := h.config.GetDevice(id); !found { 404 }; then the checks
\* of the request, which touch nothing shared; then
\* h.config.SetThumbnail(id, processed, ".jpg").
UploadGet(t) ==
  /\ pc[t] = "up_get"
  /\ mu' = RUnlocked(t)
  /\ IF ~GetDevice(Devices, op[t].id).found
     THEN /\ loc' = [loc EXCEPT ![t].err = ErrNotFound]
          /\ Return(t)
     ELSE IF Reject(op[t].req) # Nil
     THEN /\ loc' = [loc EXCEPT ![t].err = Reject(op[t].req)]
          /\ Return(t)
     ELSE /\ loc' = [loc EXCEPT ![t].sid = op[t].id,
                                ![t].sdata = ProcessThumbnail(UserImage),
                                ![t].sext = ".jpg"]
          /\ Goto(t, "st_mkdir")
  /\ UNCHANGED <<Devices, fs, thumbs, thumbDir, nextID, calls, active, op, pre, touched, hist, loaded, img, pat, status>>

\* ------------------------------------------------------ return, restart
\* The call has returned to its caller (the HTTP handler answers).
Finish(t) ==
  /\ pc[t] = "ret"
  /\ pc' = [pc EXCEPT ![t] = "idle"]
  /\ hist' = IF op[t].kind \in Mutating /\ loc[t].err = Nil
             THEN Append(hist, [kind |-> op[t].kind,
                                id |-> IF op[t].kind = "Add" THEN loc[t].device.ID ELSE op[t].id,
                                input |-> op[t].input, ext |-> op[t].ext])
             ELSE hist
  /\ op' = [op EXCEPT ![t] = NoOp]
  /\ loc' = [loc EXCEPT ![t] = NoLoc]
  /\ pre' = [pre EXCEPT ![t] = NoPre]
  /\ touched' = [touched EXCEPT ![t] = NoTouch]
  /\ UNCHANGED <<Devices, fs, thumbs, thumbDir, mu, nextID, calls, active, stack, loaded, img, pat, status>>

\* The process stops (a crash, a kill) while a Save is writing: what is on
\* disk stays, the memory and every call in progress are gone. (A stop at
\* any other moment leaves the files of the state it stops in.)
Crash ==
  /\ \E t \in Callers : pc[t] \in SaveSteps
  /\ pc' = [t \in Callers |-> "crashed"]
  /\ Devices' = <<>>
  /\ mu' = Free
  /\ stack' = [t \in Callers |-> <<>>]
  /\ op' = [t \in Callers |-> NoOp]
  /\ loc' = [t \in Callers |->
               IF pc[t] \in SaveSteps THEN [NoLoc EXCEPT !.cfg0 = loc[t].cfg0] ELSE NoLoc]
  /\ pre' = [t \in Callers |-> NoPre]
  /\ touched' = [t \in Callers |-> NoTouch]
  /\ hist' = <<>>
  /\ nextID' = 0
  /\ calls' = 0
  /\ UNCHANGED <<fs, thumbs, thumbDir, active, loaded, img, pat, status>>


\* ----------------------------------------------------------- LoadConfig
\* The device lists of the configuration files LoadConfig is given: none,
\* a complete entry, an entry written by hand without id and thumbnail, a
\* copy of the complete entry with its id removed, and two entries.
FileEntry(id, d, thumb) == [NewDevice(id, d) EXCEPT !.Thumbnail = thumb]

FileLists ==
  LET plain == CHOOSE d \in Inputs : d.Alias = ""
      full == CHOOSE d \in Inputs : d.Alias # ""
      e1 == FileEntry(1, plain, ThumbName(1, ".jpg"))
      e2 == FileEntry(NoID, full, NoThumb)
      e3 == FileEntry(NoID, plain, ThumbName(1, ".jpg"))
  IN {<<>>, <<e1>>, <<e2>>, <<e3>>, <<e1, e2>>}

LoadFiles == {NoFile, MalformedFile} \cup {EncodeConfig(DefaultPort, l) : l \in FileLists}

\* The process starts: LoadConfig(path) is about to read the file.
InitLoad ==
  /\ \E f \in LoadFiles :
       /\ fs = [p \in {CfgPath, TmpFile} |-> IF p = CfgPath THEN f ELSE NoFile]
       /\ thumbs = IF \E k \in 1..Len(f.devices) : "thumbnail" \in DOMAIN f.devices[k]
                   THEN {ThumbFile(ThumbName(1, ".jpg"), UserImage)}
                   ELSE {}
       /\ thumbDir = (thumbs # {})
       /\ pre = [t \in Callers |-> IF t = 1
                                   THEN [devs |-> <<>>, cfg |-> f, thumbs |-> thumbs]
                                   ELSE NoPre]
  /\ Devices = <<>>
  /\ mu = Free
  /\ nextID = 1
  /\ calls = 1
  /\ active = {1}
  /\ pc = [t \in Callers |-> IF t = 1 THEN "ld_read" ELSE "idle"]
  /\ stack = [t \in Callers |-> IF t = 1 THEN <<"ld_done">> ELSE <<>>]
  /\ op = [t \in Callers |-> IF t = 1 THEN [NoOp EXCEPT !.kind = "Load"] ELSE NoOp]
  /\ loc = [t \in Callers |-> NoLoc]
  /\ touched = [t \in Callers |-> NoTouch]
  /\ hist = <<>>
  /\ loaded = <<>>
  /\ img = NoImage
  /\ pat = NoPattern
  /\ status = NoStatus

\* os.ReadFile(path): no file -> return cfg, cfg.Save(); another read error
\* or a file that does not parse -> return nil, err; else the parsed list.
LoadRead(t) ==
  /\ pc[t] = "ld_read"
  /\ IF fs[CfgPath] = NoFile
     THEN /\ Devices' = <<>>
          /\ TailCallSave(t)
          /\ UNCHANGED loc
     ELSE \E ok \in BOOLEAN :
            IF ~ok \/ fs[CfgPath].state # "complete"
            THEN /\ loc' = [loc EXCEPT ![t].err = IF ok THEN ErrParse ELSE ErrRead]
                 /\ Return(t)
                 /\ UNCHANGED Devices
            ELSE /\ Devices' = DecodeDevices(fs[CfgPath])
                 /\ Goto(t, "ld_ids")
                 /\ UNCHANGED loc
  /\ UNCHANGED <<fs, thumbs, thumbDir, mu, nextID, calls, active, op, pre, touched, hist, loaded, img, pat, status>>

\* The entries of devs without identifier, up to index k.
Unidentified(devs, k) == {j \in 1..k : devs[j].ID = NoID}

\* for i := range cfg.Devices { if ID == "" { ID = uuid.New().String() } }
AssignIDs(devs, next) ==
  [k \in 1..Len(devs) |->
     IF devs[k].ID = NoID
     THEN [devs[k] EXCEPT !.ID = next + Cardinality(Unidentified(devs, k))]
     ELSE devs[k]]

LoadAssignIDs(t) ==
  /\ pc[t] = "ld_ids"
  /\ Devices' = AssignIDs(Devices, nextID)
  /\ nextID' = nextID + Cardinality(Unidentified(Devices, Len(Devices)))
  /\ loc' = [loc EXCEPT ![t].pos = 1]
  /\ Goto(t, "ld_gen")
  /\ UNCHANGED <<fs, thumbs, thumbDir, mu, calls, active, op, pre, touched, hist, loaded, img, pat, status>>

\* GenerateMissingThumbnails: for each device without thumbnail,
\* c.SetThumbnail(device.ID, pattern, ".jpg"), its error dropped; after the
\* last device LoadConfig returns cfg, nil.
LoadGenerate(t) ==
  /\ pc[t] = "ld_gen"
  /\ LET i == loc[t].pos
     IN IF i > Len(Devices)
        THEN /\ loc' = [loc EXCEPT ![t].err = Nil]
             /\ Return(t)
        ELSE IF Devices[i].Thumbnail = NoThumb
        THEN /\ loc' = [loc EXCEPT ![t].pos = i + 1,
                                   ![t].sid = Devices[i].ID,
                                   ![t].sdata = GeneratePatternThumbnail(Devices[i]),
                                   ![t].sext = ".jpg"]
             /\ pc' = [pc EXCEPT ![t] = "st_mkdir"]
             /\ stack' = [stack EXCEPT ![t] = <<"ld_gen">> \o @]
        ELSE /\ loc' = [loc EXCEPT ![t].pos = i + 1]
             /\ UNCHANGED <<pc, stack>>
  /\ UNCHANGED <<Devices, fs, thumbs, thumbDir, mu, nextID, calls, active, op, pre, touched, hist, loaded, img, pat, status>>

\* The server is stopped and started again: LoadConfig runs on what the
\* first run left on disk; loaded keeps the list the first run had.
Reload(t) ==
  /\ pc[t] = "ld_done"
  /\ loc[t].err = Nil
  /\ calls < MaxCalls
  /\ calls' = calls + 1
  /\ loaded' = Devices
  /\ Devices' = <<>>
  /\ pre' = [pre EXCEPT ![t] = [devs |-> <<>>, cfg |-> fs[CfgPath], thumbs |-> thumbs]]
  /\ loc' = [loc EXCEPT ![t] = NoLoc]
  /\ touched' = [touched EXCEPT ![t] = NoTouch]
  /\ pc' = [pc EXCEPT ![t] = "ld_read"]
  /\ stack' = [stack EXCEPT ![t] = <<"ld_done">>]
  /\ UNCHANGED <<fs, thumbs, thumbDir, mu, nextID, active, op, hist, img, pat, status>>

NextLoad ==
  \E t \in Callers :
    \/ LoadRead(t)
    \/ LoadAssignIDs(t)
    \/ LoadGenerate(t)
    \/ SetThumbnailMkdir(t)
    \/ SetThumbnailLock(t)
    \/ SetThumbnailBody(t)
    \/ SaveLock(t)
    \/ SaveCreate(t)
    \/ SaveEncode(t)
    \/ SaveClose(t)
    \/ SaveRename(t)
    \/ Reload(t)

SpecLoad == InitLoad /\ [][NextLoad]_vars

\* ------------------------------------- a longer list, two callers
\* A registry of three devices, loaded from a file that has them, and two
\* concurrent callers that update and delete.
ThreeDevices ==
  LET plain == CHOOSE d \in Inputs : d.Alias = ""
  IN [k \in 1..3 |-> NewDevice(k, plain)]

InitThree ==
  /\ Devices = ThreeDevices
  /\ fs = [p \in {CfgPath, TmpFile} |->
             IF p = CfgPath THEN EncodeConfig(DefaultPort, ThreeDevices) ELSE NoFile]
  /\ thumbs = {}
  /\ thumbDir = FALSE
  /\ nextID = 3
  /\ mu = Free
  /\ calls = 0
  /\ pc = [t \in Callers |-> "idle"]
  /\ stack = [t \in Callers |-> <<>>]
  /\ op = [t \in Callers |-> NoOp]
  /\ loc = [t \in Callers |-> NoLoc]
  /\ pre = [t \in Callers |-> NoPre]
  /\ touched = [t \in Callers |-> NoTouch]
  /\ hist = <<>>
  /\ loaded = Devices
  /\ img = NoImage
  /\ pat = NoPattern
  /\ status = NoStatus

InitRace == InitThree /\ active = Callers

\* The steps of a call of UpdateDevice or DeleteDevice that has started.
RaceStep(t) ==
  \/ UpdateLock(t)
  \/ UpdateBody(t)
  \/ UpdateSaved(t)
  \/ UpdateRollbackLock(t)
  \/ UpdateRollback(t)
  \/ DeleteLock(t)
  \/ DeleteBody(t)
  \/ DeleteSaved(t)
  \/ DeleteRollbackLock(t)
  \/ DeleteRollback(t)
  \/ SaveLock(t)
  \/ SaveCreate(t)
  \/ SaveEncode(t)
  \/ SaveClose(t)
  \/ SaveRename(t)

NextRace ==
  \E t \in Callers :
    \/ \E id \in 1..nextID, d \in Inputs : CallUpdate(t, id, d)
    \/ \E id \in 1..nextID : CallDelete(t, id)
    \/ RaceStep(t)
    \/ Finish(t)

SpecRace == InitRace /\ [][NextRace]_vars

\* The scheduler runs every goroutine that can take a step, and every
\* file-system call returns.
SpecRaceFair == SpecRace /\ \A t \in Callers : WF_vars(RaceStep(t))

\* --------------------------------------------------- CheckDevicesStatus
\* The goroutine that serves GET /api/status, as a holder of the lock.
StatusCaller == 3

\* DeviceStatus{ID: d.ID, Reachable: checkHostReachable(d.Host)}
DeviceStatus(d, reachable) == [ID |-> d.ID, Reachable |-> reachable]

\* A status check and, beside it, a caller that deletes.
InitStatus == InitThree /\ active = {1}

\* devices := h.config.GetDevices(): RLock
StatusRLock ==
  /\ status.step = "none"
  /\ CanRLock
  /\ mu' = RLocked(StatusCaller)
  /\ status' = [status EXCEPT !.step = "locked"]
  /\ UNCHANGED <<Registry2, img, pat>>

\* The copy, RUnlock; statuses := make([]DeviceStatus, len(devices))
StatusCopy ==
  /\ status.step = "locked"
  /\ mu' = RUnlocked(StatusCaller)
  /\ status' = [status EXCEPT
                  !.devices = GetDevices(Devices).elems,
                  !.step = "spawning",
                  !.pos = 1,
                  !.statuses = [i \in 1..Len(Devices) |-> DeviceStatus(NoDevice, FALSE)],
                  !.writes = [i \in 1..Len(Devices) |-> 0]]
  /\ UNCHANGED <<Registry2, img, pat>>

\* for i, device := range devices { wg.Add(1); go func(idx, d) {...}(i, device) }
\* and, after the last one, wg.Wait().
StatusSpawn ==
  /\ status.step = "spawning"
  /\ IF status.pos <= Len(status.devices)
     THEN status' = [status EXCEPT
                       !.pos = @ + 1,
                       !.pending = @ \cup {<<status.pos, status.devices[status.pos]>>}]
     ELSE status' = [status EXCEPT !.step = "waiting"]
  /\ UNCHANGED <<Registry2, mu, img, pat>>

\* A probe ends: statuses[idx] = DeviceStatus{...}; wg.Done()
ProbeDone(p, reachable) ==
  /\ p \in status.pending
  /\ status' = [status EXCEPT
                  !.pending = @ \ {p},
                  !.statuses[p[1]] = DeviceStatus(p[2], reachable),
                  !.writes[p[1]] = @ + 1]
  /\ UNCHANGED <<Registry2, mu, img, pat>>

\* Answering at once, whatever is still running.
WaitSkipped(pending) == TRUE

\* wg.Wait() returns when every Add(1) has had its Done().
WaitDone(pending) == pending = {}

\* json.NewEncoder(w).Encode(statuses)
StatusRespond ==
  /\ status.step = "waiting"
  /\ WaitDone(status.pending)
  /\ status' = [status EXCEPT !.step = "responded", !.resp = status.statuses]
  /\ UNCHANGED <<Registry2, mu, img, pat>>

NextStatus ==
  \/ StatusRLock
  \/ StatusCopy
  \/ StatusSpawn
  \/ \E p \in status.pending, reachable \in BOOLEAN : ProbeDone(p, reachable)
  \/ StatusRespond
  \/ \E t \in Callers :
       \/ \E id \in 1..nextID : CallDelete(t, id)
       \/ DeleteLock(t)
       \/ DeleteBody(t)
       \/ DeleteSaved(t)
       \/ DeleteRollbackLock(t)
       \/ DeleteRollback(t)
       \/ SaveLock(t)
       \/ SaveCreate(t)
       \/ SaveEncode(t)
       \/ SaveClose(t)
       \/ SaveRename(t)
       \/ Finish(t)

SpecStatus == InitStatus /\ [][NextStatus]_vars

\* ----------------------------------------------------- ProcessThumbnail
\* The triples <<n, num, den>> with n, den in 1..MaxDim and num one of the
\* two maxima for which n * num / den is a whole number and the float64
\* product float64(n) * (float64(num) / float64(den)) is below it: the
\* quotient is rounded to 53 bits, and so is the product.
RoundsBelow ==
  { <<145, 300, 348>>, <<155, 300, 372>>, <<290, 300, 348>>, <<310, 300, 372>> }

\* int(float64(n) * ratio) with ratio = float64(num) / float64(den): the
\* conversion to int truncates, so a product that comes out just below a
\* whole number loses one.
TruncProduct(n, num, den) ==
  IF <<n, num, den>> \in RoundsBelow THEN (n * num) \div den - 1 ELSE (n * num) \div den

AtLeastOne(n) == IF n < 1 THEN 1 ELSE n

\* A box that ignores the original size.
calculateDimensionsToBox(origWidth, origHeight, maxWidth, maxHeight) ==
  <<maxWidth, maxHeight>>

\* calculateDimensions: the pair (newWidth, newHeight) it returns.
\* heightRatio < widthRatio is maxHeight/origHeight < maxWidth/origWidth.
calculateDimensions(origWidth, origHeight, maxWidth, maxHeight) ==
  IF origWidth <= maxWidth /\ origHeight <= maxHeight
  THEN <<origWidth, origHeight>>
  ELSE LET byHeight == maxHeight * origWidth < maxWidth * origHeight
           num == IF byHeight THEN maxHeight ELSE maxWidth
           den == IF byHeight THEN origHeight ELSE origWidth
       IN <<AtLeastOne(TruncProduct(origWidth, num, den)),
            AtLeastOne(TruncProduct(origHeight, num, den))>>

\* img, _, err := image.Decode(...); bounds.Dx(), bounds.Dy() are positive.
InitDims ==
  /\ img \in [step : {"decoded"}, origWidth : 1..MaxDim, origHeight : 1..MaxDim,
              newWidth : {0}, newHeight : {0}, resized : {FALSE}]
  /\ Devices = <<>>
  /\ fs = [p \in {CfgPath, TmpFile} |->
             IF p = CfgPath THEN EncodeConfig(DefaultPort, <<>>) ELSE NoFile]
  /\ thumbs = {}
  /\ thumbDir = FALSE
  /\ mu = Free
  /\ nextID = 0
  /\ calls = 0
  /\ active = {}
  /\ pc = [t \in Callers |-> "idle"]
  /\ stack = [t \in Callers |-> <<>>]
  /\ op = [t \in Callers |-> NoOp]
  /\ loc = [t \in Callers |-> NoLoc]
  /\ pre = [t \in Callers |-> NoPre]
  /\ touched = [t \in Callers |-> NoTouch]
  /\ hist = <<>>
  /\ loaded = <<>>
  /\ pat = NoPattern
  /\ status = NoStatus

\* newWidth, newHeight := calculateDimensions(origWidth, origHeight, 400, 300)
ProcessCalculate ==
  /\ img.step = "decoded"
  /\ LET d == calculateDimensions(img.origWidth, img.origHeight,
                                  maxThumbnailWidth, maxThumbnailHeight)
     IN img' = [img EXCEPT !.step = "sized", !.newWidth = d[1], !.newHeight = d[2]]
  /\ UNCHANGED <<Registry, pat, status>>

\* if newWidth < origWidth || newHeight < origHeight { scale } else { resized = img }
ProcessResize ==
  /\ img.step = "sized"
  /\ img' = [img EXCEPT !.step = "encoded",
                        !.resized = (img.newWidth < img.origWidth
                                       \/ img.newHeight < img.origHeight)]
  /\ UNCHANGED <<Registry, pat, status>>

NextDims == ProcessCalculate \/ ProcessResize

SpecDims == InitDims /\ [][NextDims]_vars

\* ---------------------------------------------- GeneratePatternThumbnail
\* The seeds device.ID + device.Host + device.Alias, as bytes: "1h1",
\* "1h2a2", "2h1" and "2h2a2".
Seeds ==
  { <<49, 104, 49>>, <<49, 104, 50, 97, 50>>, <<50, 104, 49>>, <<50, 104, 50, 97, 50>> }

\* The pixels (x, y) of the 400 x 300 image that are followed.
SamplePixels ==
  << <<0, 0>>, <<40, 0>>, <<40, 80>>, <<133, 77>>, <<200, 150>>, <<250, 10>>, <<399, 299>> >>

RECURSIVE Xor(_, _)
Xor(a, b) ==
  IF a = 0 /\ b = 0 THEN 0 ELSE ((((a % 2) + (b % 2)) % 2) + 2 * Xor(a \div 2, b \div 2))

\* fnv.New64a(): a 64-bit hash, kept as four 16-bit limbs, the least
\* significant first. The offset basis is 0xcbf29ce484222325.
OffsetBasis == <<8997, 33826, 40164, 52210>>

\* hash ^= byte
FnvXor(h, b) == [h EXCEPT ![1] = Xor(h[1], b)]

\* hash *= 0x100000001b3 (2^40 + 435), modulo 2^64
FnvMul(h) ==
  LET t1 == h[1] * 435
      t2 == h[2] * 435 + (t1 \div 65536)
      t3 == h[3] * 435 + (t2 \div 65536) + (h[1] % 256) * 256
      t4 == h[4] * 435 + (t3 \div 65536) + (h[2] % 256) * 256 + (h[1] \div 256)
  IN <<t1 % 65536, t2 % 65536, t3 % 65536, t4 % 65536>>

RECURSIVE Sum64a(_, _)
Sum64a(h, bytes) ==
  IF bytes = <<>> THEN h ELSE Sum64a(FnvMul(FnvXor(h, Head(bytes))), Tail(bytes))

\* h := fnv.New64a(); h.Write([]byte(seed)); hash := h.Sum64()
fnv64a(seed) == Sum64a(OffsetBasis, seed)

\* The sixteen hexadecimal digits of a hash, the most significant first.
HexDigits(h) ==
  [k \in 1..16 |->
     LET limb == h[4 - ((k - 1) \div 4)]
     IN CASE k % 4 = 1 -> limb \div 4096
          [] k % 4 = 2 -> (limb \div 256) % 16
          [] k % 4 = 3 -> (limb \div 16) % 16
          [] OTHER -> limb % 16]

RECURSIVE ModFold(_, _, _)
ModFold(r, digits, m) ==
  IF digits = <<>> THEN r ELSE ModFold(((r * 16) + Head(digits)) % m, Tail(digits), m)

\* hash % m, for m up to 360 * 360 * 360
Mod64(h, m) == ModFold(0, HexDigits(h), m)

\* hash % 360, (hash / 360) % 360 and (hash / 129600) % 360: the three hues,
\* in degrees (and a first hue that drifts with the number of patterns made).
Hue1ByRun(h) == (Mod64(h, 360) + Len(pat.done)) % 360

Hue1(h) == Mod64(h, 360)

Hue2(h) == Mod64(h, 129600) \div 360

Hue3(h) == Mod64(h, 46656000) \div 129600

\* patternType := hash % 4
PatternType(h) == Mod64(h, 4)

\* float64(hash % 100), the phase of the waves
Phase(h) == Mod64(h, 100)

\* hueToRGB(p, q, t) * 60, with p and q in 1/10000 and t in degrees.
hueToRGB(p, q, t) ==
  LET u == IF t < 0 THEN t + 360 ELSE IF t > 360 THEN t - 360 ELSE t
  IN IF u < 60 THEN p * 60 + (q - p) * u
     ELSE IF u < 180 THEN q * 60
     ELSE IF u < 240 THEN p * 60 + (q - p) * (240 - u)
     ELSE p * 60

\* The <<s, l, hue, channel>> (s, l in percent, hue in degrees, channel 1
\* for R, 2 for G, 3 for B) for which channel * 255 is a whole number and
\* the float64 computation of hslToRGB comes out below it, so that uint8()
\* truncates to one less.
HueRoundsBelow ==
  { <<60, 40, 5, 2>>, <<60, 40, 125, 3>>, <<60, 40, 210, 2>>, <<60, 40, 235, 2>>,
    <<60, 40, 245, 1>>, <<60, 40, 270, 1>>, <<60, 40, 295, 1>>, <<60, 40, 355, 3>>,
    <<50, 50, 70, 1>>, <<50, 50, 78, 1>>, <<50, 50, 94, 1>>, <<50, 50, 102, 1>>,
    <<50, 50, 118, 1>>, <<50, 50, 190, 2>>, <<50, 50, 198, 2>>, <<50, 50, 214, 2>>,
    <<50, 50, 222, 2>>, <<50, 50, 238, 2>>, <<50, 50, 242, 1>>, <<50, 50, 250, 1>>,
    <<50, 50, 266, 1>>, <<50, 50, 274, 1>>, <<50, 50, 290, 1>>, <<50, 50, 298, 1>>,
    <<50, 50, 310, 3>>, <<50, 50, 318, 3>>, <<50, 50, 334, 3>>, <<50, 50, 342, 3>>,
    <<50, 50, 358, 3>>, <<70, 60, 210, 2>>, <<70, 60, 270, 1>> }

\* uint8(channel * 255) of hslToRGB(hue / 360, s / 100, l / 100)
Channel(hue, s, l, c) ==
  LET q == IF l < 50 THEN l * (100 + s) ELSE (l + s) * 100 - l * s
      p == 2 * l * 100 - q
      t == CASE c = 1 -> hue + 120 [] c = 2 -> hue [] OTHER -> hue - 120
      exact == IF s = 0 THEN (l * 255) \div 100
               ELSE (hueToRGB(p, q, t) * 255) \div 600000
  IN IF <<s, l, hue, c>> \in HueRoundsBelow THEN exact - 1 ELSE exact

\* color.RGBA{R, G, B, 255}
hslToRGB(hue, s, l) ==
  <<Channel(hue, s, l, 1), Channel(hue, s, l, 2), Channel(hue, s, l, 3), 255>>

\* int(math.Sqrt(n)) for the squared distances of the image
Isqrt(n) == CHOOSE r \in 0..250 : r * r <= n /\ n < (r + 1) * (r + 1)

\* <<x, phase, f>>: f is math.Sin(float64(x)/30.0 + phase) * 20 rounded
\* down, for the columns of SamplePixels and the phases of Seeds whose
\* pattern is the waves.
SinTable ==
  { <<0, 7, 13>>, <<40, 7, 17>>, <<133, 7, -19>>, <<200, 7, 17>>, <<250, 7, 7>>,
    <<399, 7, 19>> }

WaveFloor(x, phase) == CHOOSE f \in -20..20 : <<x, phase, f>> \in SinTable

\* Which of color1, color2, color3 the pixel (x, y) gets.
PatternColor(type, phase, x, y) ==
  CASE type = 0 ->
         (((x + y) \div 20) % 3) + 1
    [] type = 1 ->
         ((Isqrt((x - 200) * (x - 200) + (y - 150) * (y - 150)) \div 30) % 3) + 1
    [] type = 2 ->
         IF ((x \div 40) + (y \div 40)) % 2 = 0 THEN 1
         ELSE IF ((x \div 40) * (y \div 40)) % 3 = 0 THEN 2 ELSE 3
    [] OTHER ->
         LET v == y - 150 + WaveFloor(x, phase)
             band == (IF v >= 0 THEN v ELSE -v - 1) \div 25
         IN (band % 3) + 1

\* The registry of a loaded server, no call in progress.
InitPattern == InitCommon /\ active = {}

\* GeneratePatternThumbnail(seed): the hash of the seed.
PatternHash(seed) ==
  /\ pat.step \in {"none", "encoded"}
  /\ Len(pat.done) < MaxRuns
  /\ pat' = [pat EXCEPT !.kind = 0, !.step = "hashed", !.seed = seed,
                        !.hash = fnv64a(seed), !.colors = <<>>, !.pixels = <<>>]
  /\ UNCHANGED <<Registry, img, status>>

\* color1, color2, color3 and patternType
PatternColors ==
  /\ pat.step = "hashed"
  /\ pat' = [pat EXCEPT !.kind = PatternType(pat.hash),
                        !.step = "painting",
                        !.colors = <<hslToRGB(Hue1(pat.hash), 60, 40),
                                     hslToRGB(Hue2(pat.hash), 50, 50),
                                     hslToRGB(Hue3(pat.hash), 70, 60)>>]
  /\ UNCHANGED <<Registry, img, status>>

\* img.SetRGBA(x, y, c) for the next pixel
PatternPixel ==
  /\ pat.step = "painting"
  /\ Len(pat.pixels) < Len(SamplePixels)
  /\ LET xy == SamplePixels[Len(pat.pixels) + 1]
         c == PatternColor(pat.kind, Phase(pat.hash), xy[1], xy[2])
     IN pat' = [pat EXCEPT !.pixels = Append(@, pat.colors[c])]
  /\ UNCHANGED <<Registry, img, status>>

\* jpeg.Encode(&buf, img, &jpeg.Options{Quality: jpegQuality}); return buf.Bytes()
PatternEncode ==
  /\ pat.step = "painting"
  /\ Len(pat.pixels) = Len(SamplePixels)
  /\ pat' = [pat EXCEPT !.step = "encoded",
                        !.done = Append(@, [kind |-> pat.kind,
                                            data |-> <<"jpeg", jpegQuality, pat.pixels>>,
                                            seed |-> pat.seed,
                                            colors |-> pat.colors])]
  /\ UNCHANGED <<Registry, img, status>>

NextPattern ==
  \/ \E seed \in Seeds : PatternHash(seed)
  \/ PatternColors
  \/ PatternPixel
  \/ PatternEncode

SpecPattern == InitPattern /\ [][NextPattern]_vars

\* ----------------------------------------------------------------- next
Next ==
  \/ \E t \in Callers :
       \/ \E d \in Inputs : CallAdd(t, d)
       \/ AddLock(t)
       \/ AddAppend(t)
       \/ AddSaved(t)
       \/ AddRollbackLock(t)
       \/ AddRollback(t)
       \/ AddGetRLock(t)
       \/ AddGet(t)
       \/ \E id \in 1..(nextID + 1), d \in Inputs : CallUpdate(t, id, d)
       \/ UpdateLock(t)
       \/ UpdateBody(t)
       \/ UpdateSaved(t)
       \/ UpdateRollbackLock(t)
       \/ UpdateRollback(t)
       \/ \E id \in 1..(nextID + 1) : CallDelete(t, id)
       \/ DeleteLock(t)
       \/ DeleteBody(t)
       \/ DeleteSaved(t)
       \/ DeleteRollbackLock(t)
       \/ DeleteRollback(t)
       \/ \E id \in 1..(nextID + 1), ext \in Exts : CallSetThumbnail(t, id, ext)
       \/ SetThumbnailEnter(t)
       \/ SetThumbnailMkdir(t)
       \/ SetThumbnailLock(t)
       \/ SetThumbnailBody(t)
       \/ \E id \in 1..(nextID + 1) : CallDeleteThumbnail(t, id)
       \/ DeleteThumbnailLock(t)
       \/ DeleteThumbnailBody(t)
       \/ \E id \in 1..(nextID + 1) : CallGo(t, id)
       \/ GoRLock(t)
       \/ GoGet(t)
       \/ \E id \in 1..(nextID + 1), req \in UploadRequests : CallUpload(t, id, req)
       \/ UploadRLock(t)
       \/ UploadGet(t)
       \/ CallList(t)
       \/ ListRLock(t)
       \/ ListCopy(t)
       \/ ListPathRLock(t)
       \/ ListPath(t)
       \/ ListSet(t)
       \/ SaveLock(t)
       \/ SaveCreate(t)
       \/ SaveEncode(t)
       \/ SaveClose(t)
       \/ SaveRename(t)
       \/ Finish(t)
  \/ Crash

Spec == Init /\ [][Next]_vars

SpecConc == InitConc /\ [][Next]_vars

\* --------------------------------------------------------------- claims
\* Caller t's call of the given kind has returned and its result is in loc.
Returned(t, kinds) == pc[t] = "ret" /\ op[t].kind \in kinds

\* The first Save the call made (AddDevice's, UpdateDevice's and
\* DeleteDevice's own c.Save()) failed.
OwnSaveFailed(t) == Len(touched[t].saves) >= 1 /\ touched[t].saves[1] = ErrSave

LastSave(t) == touched[t].saves[Len(touched[t].saves)]

\* The device list the canonical file holds.
FileDevices == DecodeDevices(fs[CfgPath])

\* C1: with one caller, when the Save inside AddDevice, UpdateDevice or
\* DeleteDevice fails, the call returns that error and the device list is
\* the one it was before the call, entry by entry.
C1_SaveFailureRestoresList ==
  \A t \in Callers :
    (Returned(t, {"Add", "Update", "Delete"}) /\ OwnSaveFailed(t)) =>
      /\ loc[t].err = ErrSave
      /\ Devices = pre[t].devs

\* An UpdateDevice that changed an entry, failed to save and has returned.
C1_Witness ==
  \E t \in Callers :
    /\ Returned(t, {"Update"})
    /\ OwnSaveFailed(t)
    /\ IndexOf(pre[t].devs, op[t].id) > 0
    /\ pre[t].devs[IndexOf(pre[t].devs, op[t].id)].Host # op[t].input.Host

\* C3 (as claimed): whenever a mutating operation returns success, the
\* in-memory device list equals the list in the canonical file.
C3_SuccessMeansMemoryEqualsFile ==
  \A t \in Callers :
    (Returned(t, Mutating) /\ loc[t].err = Nil) =>
      /\ fs[CfgPath].state = "complete"
      /\ FileDevices = Devices

\* C4 (as claimed): every write operation that returns Save's error has put
\* the device list back to what it was before the call.
C4_EveryWriteRollsBack ==
  \A t \in Callers :
    (Returned(t, Mutating) /\ loc[t].err = ErrSave) => Devices = pre[t].devs

\* C5 (as claimed): after a successful Delete(id) of a device whose
\* thumbnail file was on disk, Get(id) finds nothing and the file is gone.
C5_DeletePurgesThumbnail ==
  \A t \in Callers :
    (/\ Returned(t, {"Delete"})
     /\ loc[t].err = Nil
     /\ GetDevice(pre[t].devs, op[t].id).found
     /\ GetDevice(pre[t].devs, op[t].id).dev.Thumbnail \in FileNames(pre[t].thumbs)) =>
      /\ ~GetDevice(Devices, op[t].id).found
      /\ GetDevice(pre[t].devs, op[t].id).dev.Thumbnail \notin FileNames(thumbs)

\* C6 (as claimed): whenever Add returns success, Get of the new identifier
\* returns a device with a non-empty thumbnail reference.
C6_AddedDeviceHasThumbnail ==
  \A t \in Callers :
    (Returned(t, {"Add"}) /\ loc[t].err = Nil) =>
      /\ GetDevice(Devices, loc[t].device.ID).found
      /\ GetDevice(Devices, loc[t].device.ID).dev.Thumbnail # NoThumb

\* C7: the canonical file is always a complete encoding; while a Save runs,
\* and if the process stops inside it, the file is the one the Save found;
\* after a Save that returned an error it is still that file, and after a
\* Save that returned nil it is the encoding of the device list.
C7_SaveIsAtomic ==
  /\ fs[CfgPath].state = "complete"
  /\ \A t \in Callers :
       /\ pc[t] \in SaveSteps => fs[CfgPath] = loc[t].cfg0
       /\ (pc[t] = "crashed" /\ loc[t].cfg0 # NoFile) => fs[CfgPath] = loc[t].cfg0
       /\ (/\ pc[t] \in {"add_saved", "add_get_rlock", "ret", "upd_saved", "del_saved"}
           /\ touched[t].saves # <<>>) =>
            IF LastSave(t) = ErrSave
            THEN fs[CfgPath] = loc[t].cfg0
            ELSE fs[CfgPath] = EncodeConfig(DefaultPort, Devices)

\* The process stopped between Encode and Rename: the new content is in the
\* temporary file, the canonical file is the old one.
C7_Witness ==
  \E t \in Callers :
    /\ pc[t] = "crashed"
    /\ fs[TmpFile].state = "complete"
    /\ fs[TmpFile] # fs[CfgPath]
    /\ fs[CfgPath] = loc[t].cfg0

\* C8: a successful Update(id, input) leaves the list as it was except that
\* the entry of id has the input's host, alias, username and password; its
\* identifier, thumbnail reference and position, and all other entries, are
\* the old ones. The entry is also what the call returns.
C8_UpdateFrame ==
  \A t \in Callers :
    (Returned(t, {"Update"}) /\ loc[t].err = Nil) =>
      LET i == IndexOf(pre[t].devs, op[t].id)
      IN /\ i > 0
         /\ Devices = [pre[t].devs EXCEPT ![i] =
                         [@ EXCEPT !.Host = op[t].input.Host,
                                   !.Alias = op[t].input.Alias,
                                   !.Username = op[t].input.Username,
                                   !.Password = op[t].input.Password]]
         /\ loc[t].rdev = Devices[i]

\* A successful update, with new values, of one of two devices, the updated
\* one having a thumbnail.
C8_Witness ==
  \E t \in Callers :
    /\ Returned(t, {"Update"})
    /\ loc[t].err = Nil
    /\ Len(pre[t].devs) = 2
    /\ LET i == IndexOf(pre[t].devs, op[t].id)
       IN /\ i > 0
          /\ pre[t].devs[i].Thumbnail # NoThumb
          /\ pre[t].devs[i].Host # op[t].input.Host

\* What a call on an unknown identifier must leave alone: the device list,
\* the thumbnail files and the canonical file (no Save was made).
NotFoundFrame(t) ==
  /\ Devices = pre[t].devs
  /\ thumbs = pre[t].thumbs
  /\ ~touched[t].wroteThumbs
  /\ ~touched[t].wroteCfg
  /\ touched[t].saves = <<>>
  /\ fs[CfgPath] = pre[t].cfg

NotFoundCall(t) ==
  /\ Returned(t, {"Update", "Delete", "SetThumbnail", "DeleteThumbnail"})
  /\ \A k \in 1..Len(pre[t].devs) : pre[t].devs[k].ID # op[t].id

\* C9 (as claimed): Update, Delete, SetThumbnail and DeleteThumbnail on an
\* identifier that is not in the registry return "device not found" and
\* change nothing.
C9_NotFoundAsClaimed ==
  \A t \in Callers :
    NotFoundCall(t) => (loc[t].err = ErrNotFound /\ NotFoundFrame(t))

\* C9 (amended): they return "device not found", except that SetThumbnail
\* returns the error of creating the thumbnail directory when that fails
\* (it creates the directory before it looks the device up); in every case
\* they change nothing.
C9_NotFound ==
  \A t \in Callers :
    NotFoundCall(t) =>
      /\ loc[t].err = ErrNotFound \/ (op[t].kind = "SetThumbnail" /\ loc[t].err = ErrMkdir)
      /\ NotFoundFrame(t)

\* A SetThumbnail on an unknown identifier that got as far as the lookup,
\* with a thumbnail file of another device on disk.
C9_Witness ==
  \E t \in Callers :
    /\ NotFoundCall(t)
    /\ op[t].kind = "SetThumbnail"
    /\ loc[t].err = ErrNotFound
    /\ thumbs # {}
    /\ Len(Devices) > 0

\* ---- serial executions
\* A device without its thumbnail reference.
Core(d) ==
  [ID |-> d.ID, Host |-> d.Host, Alias |-> d.Alias, Username |-> d.Username,
   Password |-> d.Password]

CoreList(devs) == [k \in 1..Len(devs) |-> Core(devs[k])]

HasID(cores, id) == \E k \in 1..Len(cores) : cores[k].ID = id

\* What a call that returned success does to the list when it runs alone:
\* Add appends its device under the identifier it returned; the others need
\* their device to be there (they return "device not found" otherwise),
\* Update replaces its four fields, Delete removes it, and the thumbnail
\* operations leave everything but the thumbnail reference alone.
SerialApply(cores, h) ==
  IF h.kind = "Add"
  THEN [ok |-> ~HasID(cores, h.id),
        cores |-> Append(cores, Core([h.input EXCEPT !.ID = h.id]))]
  ELSE IF h.kind = "Update"
  THEN [ok |-> HasID(cores, h.id),
        cores |-> [k \in 1..Len(cores) |->
                     IF cores[k].ID = h.id
                     THEN Core([h.input EXCEPT !.ID = h.id]) ELSE cores[k]]]
  ELSE IF h.kind = "Delete"
  THEN [ok |-> HasID(cores, h.id),
        cores |-> SelectSeq(cores, LAMBDA c : c.ID # h.id)]
  ELSE [ok |-> HasID(cores, h.id), cores |-> cores]

\* The lists that running the calls todo (indices of hist) one after the
\* other, in any order, from the list cores, can end with.
RECURSIVE SerialResults(_, _)
SerialResults(cores, todo) ==
  IF todo = {}
  THEN {cores}
  ELSE UNION { LET r == SerialApply(cores, hist[k])
               IN IF r.ok THEN SerialResults(r.cores, todo \ {k}) ELSE {}
               : k \in todo }

\* Every call has returned.
Quiescent == \A t \in Callers : pc[t] = "idle"

\* C2 (as claimed, on everything but the thumbnail references): once all
\* calls have returned, the device list in memory and the one in the file
\* are both the result of running the calls that returned success, and
\* only those, one after the other in some order from the loaded list.
C2_Serializable ==
  Quiescent =>
    \E s \in SerialResults(CoreList(loaded), DOMAIN hist) :
      /\ CoreList(Devices) = s
      /\ CoreList(FileDevices) = s

\* C10: no step of ListDevices, the filling in of thumbnail names in the
\* returned slice included, changes the registry's device list (a stop of
\* the process is not a step of ListDevices).
C10_ListReturnsCopy ==
  [][\A t \in Callers :
       (op[t].kind = "List" /\ pc[t] # "idle" /\ pc'[t] \notin {pc[t], "crashed"}) =>
          Devices' = Devices]_vars

\* A ListDevices that filled in a thumbnail name in its slice has
\* returned, and the registry's list is not the slice.
C10_Witness ==
  \E t \in Callers :
    /\ Returned(t, {"List"})
    /\ loc[t].wrote
    /\ loc[t].list.elems # Devices

\* C20: for positive original dimensions, calculateDimensions(w, h, 400, 300)
\* returns (w, h) when w <= 400 and h <= 300 (and ProcessThumbnail then does
\* not rescale), and never returns a width above w or a height above h.
C20_NeverUpscales ==
  img.step \in {"sized", "encoded"} =>
    /\ (img.origWidth <= 400 /\ img.origHeight <= 300) =>
         /\ img.newWidth = img.origWidth
         /\ img.newHeight = img.origHeight
         /\ img.step = "encoded" => ~img.resized
    /\ img.newWidth <= img.origWidth
    /\ img.newHeight <= img.origHeight

\* An image wider than the box and one pixel high was sized: its height
\* stays at the minimum of 1, its width shrinks.
C20_Witness ==
  /\ img.step = "encoded"
  /\ img.origWidth > 400
  /\ img.origHeight = 1
  /\ img.newHeight = 1
  /\ img.newWidth < img.origWidth
  /\ img.resized

\* The identifiers of a device list, in its order.
IDs(devs) == [k \in 1..Len(devs) |-> devs[k].ID]

Passwords == {"", "p2", "p3"}

\* The body of a handler's successful response, as a function of the
\* devices it read: the JSON of the device (create, update), of the slice
\* (list), or the redirect URL (/go/{id}).
Response(kind, device, list) ==
  IF kind = "Go" THEN RedirectURL(device)
  ELSE IF kind = "List" THEN [k \in 1..Len(list) |-> JsonDevice(list[k])]
  ELSE <<JsonDevice(device)>>

\* C12 (as claimed): the response of list, create, update and /go/{id} is
\* the same whatever password the devices it read have.
C12_PasswordNotInResponses ==
  \A t \in Callers :
    (Returned(t, {"Add", "Update", "List", "Go"}) /\ loc[t].err = Nil) =>
      \A p \in Passwords :
        Response(op[t].kind, loc[t].rdev, loc[t].list.elems)
          = Response(op[t].kind, [loc[t].rdev EXCEPT !.Password = p],
                     [k \in 1..Len(loc[t].list.elems) |->
                        [loc[t].list.elems[k] EXCEPT !.Password = p]])

\* The thumbnail files of device id: those named id + some extension.
FilesOf(dir, id) == {f \in dir : f.name[1] = id}

\* C13 (as claimed): after a successful SetThumbnail(id, bytes, ext) the
\* device's reference is id+ext, the file id+ext holds exactly the bytes,
\* the file referenced before the call is gone unless it has that name,
\* and the device has one thumbnail file.
C13_SetThumbnailEffect ==
  \A t \in Callers :
    (Returned(t, {"SetThumbnail"}) /\ loc[t].err = Nil) =>
      LET new == ThumbName(op[t].id, op[t].ext)
          old == GetDevice(pre[t].devs, op[t].id).dev.Thumbnail
      IN /\ GetDevice(Devices, op[t].id).found
         /\ GetDevice(Devices, op[t].id).dev.Thumbnail = new
         /\ ThumbFile(new, op[t].data) \in thumbs
         /\ (old # NoThumb /\ old # new) => old \notin FileNames(thumbs)
         /\ Cardinality(FilesOf(thumbs, op[t].id)) = 1

\* C14 (as claimed): DeleteThumbnail(id) on an existing device fails only
\* when its Save fails; when it succeeds the device has no reference, the
\* file it referenced is gone and GetThumbnailPath(id) reports not found;
\* called again after a success it succeeds under the same condition and
\* leaves the list, the thumbnail files and the canonical file as they are.
C14_DeleteThumbnailIdempotent ==
  \A t \in Callers :
    (Returned(t, {"DeleteThumbnail"}) /\ GetDevice(pre[t].devs, op[t].id).found) =>
      LET old == GetDevice(pre[t].devs, op[t].id).dev.Thumbnail
          again == /\ hist # <<>>
                   /\ calls = Len(hist) + 1
                   /\ hist[Len(hist)].kind = "DeleteThumbnail"
                   /\ hist[Len(hist)].id = op[t].id
      IN /\ loc[t].err = LastSave(t)
         /\ loc[t].err = Nil =>
              /\ GetDevice(Devices, op[t].id).dev.Thumbnail = NoThumb
              /\ old # NoThumb => old \notin FileNames(thumbs)
              /\ ~GetThumbnailPath(Devices, op[t].id).found
              /\ again => /\ Devices = pre[t].devs
                          /\ thumbs = pre[t].thumbs
                          /\ fs[CfgPath] = pre[t].cfg

\* LoadConfig has returned.
LoadReturned(t) == pc[t] = "ld_done" /\ op[t].kind = "Load"

\* The file LoadConfig writes for a path without file.
DefaultFile == [state |-> "complete", port |-> 8080, devices |-> <<>>]

\* On a malformed file LoadConfig returns an error and the file is the one
\* it found.
MalformedRejected(t) ==
  pre[t].cfg = MalformedFile =>
    /\ loc[t].err \in {ErrRead, ErrParse}
    /\ fs[CfgPath] = pre[t].cfg

\* C15 (as claimed): Load on a path without file returns the registry with
\* port 8080 and no devices and creates the file with that content; Load on
\* a malformed file returns an error and leaves the file unchanged.
C15_LoadAsClaimed ==
  \A t \in Callers :
    LoadReturned(t) =>
      /\ pre[t].cfg = NoFile =>
           /\ loc[t].err = Nil
           /\ Devices = <<>>
           /\ fs[CfgPath] = DefaultFile
      /\ MalformedRejected(t)

\* C15 (amended): on a path without file Load has the registry with port
\* 8080 and no devices and writes it with Save; it returns nil and the file
\* with that content exists when the Save succeeds, and returns the Save's
\* error with no canonical file created when it fails. On a malformed file
\* it returns an error and leaves the file unchanged.
C15_Load ==
  \A t \in Callers :
    LoadReturned(t) =>
      /\ pre[t].cfg = NoFile =>
           /\ Devices = <<>>
           /\ loc[t].err = LastSave(t)
           /\ fs[CfgPath] = IF loc[t].err = Nil THEN DefaultFile ELSE NoFile
      /\ MalformedRejected(t)

\* Load has created the default file on a path that had none.
C15_Witness ==
  \E t \in Callers :
    /\ LoadReturned(t)
    /\ pre[t].cfg = NoFile
    /\ loc[t].err = Nil
    /\ fs[CfgPath] = DefaultFile
    /\ touched[t].wroteCfg

\* C16 (as claimed): a Load that follows a successful Load of the same
\* path, with nothing in between, returns the devices the first returned,
\* in the same order and with the same identifiers.
C16_ReloadStable ==
  \A t \in Callers :
    (LoadReturned(t) /\ calls >= 2 /\ loc[t].err = Nil) =>
      CoreList(Devices) = CoreList(loaded)

\* C17 (as claimed): in every reachable state the identifiers of the
\* devices are non-empty and pairwise distinct.
C17_IdentifiersDistinct ==
  /\ \A k \in 1..Len(Devices) : Devices[k].ID # NoID
  /\ \A j, k \in 1..Len(Devices) : j # k => Devices[j].ID # Devices[k].ID

\* The requests the claim speaks of: the fetch fails, the fetched bytes are
\* not an image, the bytes do not decode, or the file's extension is not
\* one of jpg, jpeg, png, gif, webp.
BadUpload(req) ==
  \/ req.source = "url" /\ (req.fetch # "ok" \/ ~req.decodes)
  \/ req.source = "file"
       /\ (req.fileExt \notin {".jpg", ".png", ".jpeg", ".gif", ".webp"} \/ ~req.decodes)

\* C18: an upload whose request is bad returns an error without having
\* called SetThumbnail: the device list, the canonical file and the
\* thumbnail files are the ones of before the call.
C18_BadUploadRejected ==
  \A t \in Callers :
    (Returned(t, {"Upload"}) /\ BadUpload(op[t].req)) =>
      /\ loc[t].err # Nil
      /\ loc[t].sid = NoID
      /\ ~touched[t].ioFailed
      /\ NotFoundFrame(t)

\* An upload of a file with a refused extension, for a device that exists,
\* was answered with the file-type error.
C18_Witness ==
  \E t \in Callers :
    /\ Returned(t, {"Upload"})
    /\ op[t].req.source = "file"
    /\ op[t].req.fileExt = ".exe"
    /\ GetDevice(Devices, op[t].id).found
    /\ loc[t].err = ErrFileType

\* C19: a write operation in which the creation of the thumbnail
\* directory, the write of a thumbnail file or a Save failed returns an
\* error to its caller.
C19_FailuresReturned ==
  \A t \in Callers :
    (Returned(t, Mutating)
       /\ (touched[t].ioFailed
             \/ \E k \in 1..Len(touched[t].saves) : touched[t].saves[k] = ErrSave)) =>
      loc[t].err # Nil

\* The exactly scaled value of n is n * ScaleNum / ScaleDen, the factor
\* being the smaller of 400 / w and 300 / h.
ScaleByHeight == 300 * img.origWidth < 400 * img.origHeight

ScaleNum == IF ScaleByHeight THEN 300 ELSE 400

ScaleDen == IF ScaleByHeight THEN img.origHeight ELSE img.origWidth

FloorScaled(n) ==
  IF (n * ScaleNum) \div ScaleDen < 1 THEN 1 ELSE (n * ScaleNum) \div ScaleDen

WithinOnePixel(new, n) ==
  /\ new * ScaleDen - n * ScaleNum < ScaleDen
  /\ n * ScaleNum - new * ScaleDen < ScaleDen

\* C21: an image wider than 400 or higher than 300 is sized to (w', h')
\* with 1 <= w' <= 400 and 1 <= h' <= 300, each the original dimension
\* times min(400 / w, 300 / h) rounded down and raised to 1 at least, and
\* each less than one pixel away from the exactly scaled value.
C21_UniformScale ==
  (img.step \in {"sized", "encoded"} /\ (img.origWidth > 400 \/ img.origHeight > 300)) =>
    /\ img.newWidth \in 1..400
    /\ img.newHeight \in 1..300
    /\ img.newWidth = FloorScaled(img.origWidth)
    /\ img.newHeight = FloorScaled(img.origHeight)
    /\ WithinOnePixel(img.newWidth, img.origWidth)
    /\ WithinOnePixel(img.newHeight, img.origHeight)

C23_RollbackTouchesOwnEntry ==
  [][\A t \in Callers :
       /\ (pc[t] = "add_rb" /\ pc'[t] \notin {"add_rb", "crashed"}) =>
            /\ Len(Devices) > 0
            /\ Devices[Len(Devices)].ID = loc[t].device.ID
            /\ Devices' = DropLast(Devices)
       /\ (pc[t] = "upd_rb" /\ pc'[t] \notin {"upd_rb", "crashed"}) =>
            /\ loc[t].idx <= Len(Devices)
            /\ Devices[loc[t].idx].ID = op[t].id
            /\ Devices' = [Devices EXCEPT ![loc[t].idx] = loc[t].oldDevice]]_vars

\* Reader r has returned a list holding the device that writer w's Add
\* appended, and that Add has returned the error of its Save.
ReadOfFailedAdd(r, w) ==
  /\ r # w
  /\ Returned(r, {"List"})
  /\ Returned(w, {"Add"})
  /\ loc[w].err = ErrSave
  /\ \E k \in 1..Len(loc[r].list.elems) : loc[r].list.elems[k].ID = loc[w].device.ID

\* C24: a reader can return a device that a concurrent Add has appended and
\* not yet saved; when that Add's Save fails, the device the reader returned
\* is in no version of the file and is no longer in the list.
C24_DirtyReadRolledBack ==
  \A r, w \in Callers :
    ReadOfFailedAdd(r, w) =>
      /\ \A k \in 1..Len(Devices) : Devices[k].ID # loc[w].device.ID
      /\ \A k \in 1..Len(FileDevices) : FileDevices[k].ID # loc[w].device.ID
      /\ \A k \in 1..Len(pre[w].devs) : pre[w].devs[k].ID # loc[w].device.ID
      /\ ~touched[w].wroteCfg

\* The interleaving happened: a list call ran between an Add's append and
\* the end of its failing Save, and returned the device.
C24_Witness == \E r, w \in Callers : ReadOfFailedAdd(r, w)

\* The steps that read c.Devices (GetDevices, GetDevice, GetThumbnailPath)
\* and the steps that write it or serialize it (the mutations, the
\* rollbacks, Save from os.Create to os.Rename).
ReadSteps == {"add_get", "ls_copy", "ls_path", "go_get", "up_get"}

WriteSteps ==
  {"add_append", "add_rb", "st_body", "dt_body", "upd_body", "upd_rb", "del_body",
   "del_rb"} \cup SaveSteps

\* C25: every read of the device list is made by a holder of the shared
\* lock, every mutation, rollback and Save serialization by the holder of
\* the exclusive lock; the exclusive lock excludes every shared holder, so
\* a write to the device list overlaps no other write and no read.
C25_LockDiscipline ==
  /\ [](/\ mu.writer # 0 => mu.readers = {}
        /\ \A t \in Callers :
             /\ pc[t] \in ReadSteps => (t \in mu.readers /\ mu.writer = 0)
             /\ pc[t] \in WriteSteps => mu.writer = t)
  /\ [][(Devices' # Devices /\ \E t \in Callers : pc'[t] # "crashed") =>
          /\ mu.writer # 0
          /\ pc[mu.writer] \in WriteSteps
          /\ pc'[mu.writer] # pc[mu.writer]
          /\ \A t \in Callers : pc[t] \notin ReadSteps]_vars

\* Two readers hold the shared lock at once, each about to read the list.
C25_Witness ==
  /\ mu.readers = Callers
  /\ \A t \in Callers : pc[t] \in ReadSteps

\* C26: the status check answers only when no probe is running; the answer
\* has one status per device of the snapshot, in its order and with its
\* identifier, one probe was started per device, and no result slot is
\* written twice.
C26_StatusFanOut ==
  /\ \A i \in 1..Len(status.writes) : status.writes[i] <= 1
  /\ \A p, q \in status.pending : p[1] = q[1] => p = q
  /\ status.step \in {"waiting", "responded"} =>
       \A i \in 1..Len(status.devices) :
         (status.writes[i] = 1) # (\E p \in status.pending : p[1] = i)
  /\ status.step = "responded" =>
       /\ status.pending = {}
       /\ Len(status.resp) = Len(status.devices)
       /\ \A i \in 1..Len(status.devices) :
            /\ status.resp[i].ID = status.devices[i].ID
            /\ status.writes[i] = 1
       /\ status.resp = status.statuses

\* A status check of three devices has answered, with a device that is
\* reachable and one that is not, after one of them was deleted from the
\* registry.
C26_Witness ==
  /\ status.step = "responded"
  /\ Len(status.devices) = 3
  /\ Len(Devices) = 2
  /\ status.resp[1].Reachable
  /\ ~status.resp[2].Reachable

\* A Delete for the identifier has been invoked (it is in progress, has
\* returned, or is in the history of the successful calls).
DeleteInvoked(id) ==
  \/ \E u \in Callers : op[u].kind = "Delete" /\ op[u].id = id
  \/ \E k \in 1..Len(hist) : hist[k].kind = "Delete" /\ hist[k].id = id

\* C27: in every interleaving, a device whose Add returned success is in the
\* device list for as long as no Delete for its identifier is invoked.
C27_CommittedNotLost ==
  /\ \A t \in Callers :
       (Returned(t, {"Add"}) /\ loc[t].err = Nil /\ ~DeleteInvoked(loc[t].device.ID)) =>
         \E k \in 1..Len(Devices) : Devices[k].ID = loc[t].device.ID
  /\ \A h \in 1..Len(hist) :
       (hist[h].kind = "Add" /\ ~DeleteInvoked(hist[h].id)
          /\ \A t \in Callers : pc[t] # "crashed") =>
         \E k \in 1..Len(Devices) : Devices[k].ID = hist[h].id

\* C28: the loaded registry has no thumbnail reference without its file;
\* whenever no call is in progress after any sequence of Add, Update,
\* Delete, SetThumbnail and DeleteThumbnail calls, every device with a
\* thumbnail reference has that file in the thumbnail directory, so
\* GetThumbnailPath reports found only for a file that exists.
C28_NoDanglingThumbnail ==
  (\A t \in Callers : pc[t] \in {"idle", "ret"}) =>
    \A k \in 1..Len(Devices) :
      /\ Devices[k].Thumbnail # NoThumb => Devices[k].Thumbnail \in FileNames(thumbs)
      /\ GetThumbnailPath(Devices, Devices[k].ID).found =>
           GetThumbnailPath(Devices, Devices[k].ID).path \in FileNames(thumbs)

\* The steps at which a call waits for the lock.
LockSteps ==
  {"sv_lock", "add_lock", "add_rb_lock", "add_get_rlock", "st_lock", "dt_lock",
   "upd_lock", "upd_rb_lock", "del_lock", "del_rb_lock", "ls_rlock", "ls_path_rlock",
   "go_rlock", "up_rlock"}

\* C29: a call that waits for the lock does not hold it; the lock is free
\* whenever no call is in progress; and, the scheduler being fair and the
\* file-system calls returning, every call that has started returns.
C29_TerminatesLockFree ==
  /\ [](\A t \in Callers :
          pc[t] \in LockSteps => (mu.writer # t /\ t \notin mu.readers))
  /\ []((\A t \in Callers : pc[t] \in {"idle", "panic", "ret"}) => mu = Free)
  /\ \A t \in Callers : (pc[t] # "idle") ~> (pc[t] \in {"idle", "ret"})

====
